---- MODULE Spec2Model ----
(***************************************************************************)
(* RoadTripPlanner: the trip-scoped session store (utils/tripSession.ts),  *)
(* the saved-trip registry and the share codec, together with the page     *)
(* handlers that drive them (app/page.tsx, app/planner/page.tsx,           *)
(* app/shared/trip/page.tsx, components/GoogleMap.tsx and                  *)
(* components/RoutePlacesSearch.tsx).                                      *)
(*                                                                         *)
(* JavaScript strings that the code inspects character by character        *)
(* (place ids, trip ids, storage keys) are sequences of one-character      *)
(* strings.  null and undefined are the records below.  A JavaScript       *)
(* object is a function from its own property names to their values.       *)
(***************************************************************************)
EXTENDS Integers, Sequences, FiniteSets, TLC

VARIABLES
  sessionStorage,   \* window.sessionStorage of the planning session: key -> stored string
  localStorage,     \* window.localStorage: key -> stored string
  now,              \* the wall clock read by new Date() / Date.now()
  last,             \* the last store/registry/codec call: its name, arguments and return value
  map,              \* MapComponent of the planner page: info windows, document click listeners
  planner,          \* PlannerPage state: mounted, currentSavedTripId
  search,           \* RoutePlacesSearch state: allPlaces by category, customSearchQuery
  sharedSession,    \* the share URL handed out, and the session of a visitor who opens it
  origin            \* history: the saved trip the active trip was loaded from, or null

vars == <<sessionStorage, localStorage, now, last, map, planner, search, sharedSession, origin>>

\* null and undefined.  TLC compares a record with a sequence of the same
\* size by their domains and fails; with five fields these two differ in size
\* from every string and array that the model compares them with.
null == [k \in {"null", "n1", "n2", "n3", "n4"} |-> TRUE]
undefined == [k \in {"undefined", "u1", "u2", "u3", "u4"} |-> TRUE]

----------------------------------------------------------------------------
(* Bounds *)

MaxClock == 1        \* the clock takes the values 0..MaxClock
MaxSaved == 2        \* saveCurrentTrip is offered while the registry is shorter
MaxListeners == 2    \* marker clicks are offered while fewer click listeners are registered
MaxPending == 1      \* a search is started while fewer searches await their responses
MaxRefLen == 2       \* generateTripId is called on place ids of at most this length
MaxKept == 1         \* SpecPointer offers saveCurrentTrip while the registry holds fewer snapshots

----------------------------------------------------------------------------
(* Strings *)

Str_trip_ == <<"t","r","i","p","_">>
Str_data == <<"d","a","t","a">>
Str_route == <<"r","o","u","t","e">>
Str_places == <<"p","l","a","c","e","s">>
Key_currentTripId == <<"c","u","r","r","e","n","t","T","r","i","p","I","d">>
Key_savedTrips == <<"s","a","v","e","d","T","r","i","p","s">>
Key_routeData == <<"r","o","u","t","e","D","a","t","a">>
LegacyKeys ==
  { <<"t","r","i","p","D","a","t","a">>,
    <<"r","o","u","t","e","D","a","t","a">>,
    <<"p","l","a","c","e","s","D","a","t","a">> }

\* String.prototype.charCodeAt for the characters that occur in place ids
charCodeAt(c) ==
  CASE c = "-" -> 45
    [] c = "0" -> 48
    [] c = "8" -> 56
    [] c = "A" -> 65
    [] c = "B" -> 66
    [] c = "a" -> 97

\* String.prototype.startsWith
startsWith(s, prefix) ==
  /\ Len(prefix) <= Len(s)
  /\ SubSeq(s, 1, Len(prefix)) = prefix

\* String.prototype.includes
includes(s, sub) ==
  \E i \in 0..(Len(s) - Len(sub)) : SubSeq(s, i + 1, i + Len(sub)) = sub

\* a falsy string-or-null: null, undefined or the empty string
Falsy(x) == x = null \/ x = undefined \/ x = <<>>

----------------------------------------------------------------------------
(* Trip identity *)

MinInt32 == (-2147483647) - 1

\* ToInt32(h * 31 + c) for a 32-bit signed h, computed on 16-bit limbs so
\* that no intermediate value leaves the 32-bit range
HashStep(h, c) ==
  LET hi == (h \div 65536) % 65536
      lo == h % 65536
      tlo == lo * 31 + c
      nlo == tlo % 65536
      thi == hi * 31 + (tlo \div 65536)
      nhi == thi % 65536
  IN IF nhi >= 32768 THEN (nhi - 65536) * 65536 + nlo ELSE nhi * 65536 + nlo

RECURSIVE HashFrom(_, _, _)
HashFrom(h, s, i) ==
  IF i > Len(s) THEN h ELSE HashFrom(HashStep(h, charCodeAt(s[i])), s, i + 1)

RECURSIVE Digits(_)
Digits(n) ==
  LET d == <<"0","1","2","3","4","5","6","7","8","9">>[(n % 10) + 1]
  IN IF n < 10 THEN <<d>> ELSE Digits(n \div 10) \o <<d>>

\* String(Math.abs(h)); Math.abs(-2^31) is 2^31, which is no 32-bit integer
AbsDigits(h) ==
  IF h = MinInt32 THEN <<"2","1","4","7","4","8","3","6","4","8">>
  ELSE IF h < 0 THEN Digits(0 - h) ELSE Digits(h)

generateTripId(fromPlaceId, toPlaceId) ==
  LET combinedString == fromPlaceId \o <<"-">> \o toPlaceId
  IN Str_trip_ \o AbsDigits(HashFrom(0, combinedString, 1))

getTripStorageKey(tripId, dataType) ==
  Str_trip_ \o tripId \o <<"_">> \o dataType

----------------------------------------------------------------------------
(* Objects and JSON *)

\* { ...a, ...b }
Spread(a, b) ==
  [k \in DOMAIN a \cup DOMAIN b |-> IF k \in DOMAIN b THEN b[k] ELSE a[k]]

\* obj.k, undefined when obj has no such property
Prop(obj, k) == IF k \in DOMAIN obj THEN obj[k] ELSE undefined

\* the properties of obj that may hold undefined (optional properties of
\* SavedTrip and ShareableTrip)
OptionalProps == {"description", "routeData", "placesData", "tripData"}

\* JSON.stringify omits the properties whose value is undefined
DropUndefined(obj) ==
  LET keep == {k \in DOMAIN obj : ~(k \in OptionalProps /\ obj[k] = undefined)}
  IN [k \in keep |-> obj[k]]

\* JSON.stringify of an object: the text is represented by the tree it denotes
JSONstringify(obj) == [json |-> DropUndefined(obj)]

\* JSON.stringify of an array of objects
JSONstringifyArray(arr) == [json |-> [i \in 1..Len(arr) |-> DropUndefined(arr[i])]]

IsJSONText(s) == DOMAIN s = {"json"}

\* JSON.parse: the value a JSON text denotes
JSONparse(text) == text.json

----------------------------------------------------------------------------
(* Web Storage *)

getItem(storage, key) == IF key \in DOMAIN storage THEN storage[key] ELSE null

setItem(storage, key, value) ==
  [k \in DOMAIN storage \cup {key} |-> IF k = key THEN value ELSE storage[k]]

removeItem(storage, key) ==
  [k \in DOMAIN storage \ {key} |-> storage[k]]

EmptyStorage == [k \in {} |-> null]

----------------------------------------------------------------------------
(* Trip-scoped session store (utils/tripSession.ts).  Every operation takes  *)
(* the storage it works on and returns its return value together with the    *)
(* storage it leaves.  ok is the sequence of outcomes of the setItem calls   *)
(* the operation may make, in call order: FALSE is a setItem that throws     *)
(* (QuotaExceededError).                                                     *)

\* storeTripData that leaves an existing currentTripId pointer alone
storeTripData_keepsPointer(storage, tripData, ok) ==
  IF tripData = undefined
  THEN [ret |-> FALSE, storage |-> storage]
  ELSE
    LET tripId == generateTripId(tripData.fromPlaceId, tripData.toPlaceId)
        dataWithTripId == Spread(tripData, [tripId |-> tripId])
        storageKey == getTripStorageKey(tripId, Str_data)
        s1 == setItem(storage, storageKey, JSONstringify(dataWithTripId))
        s2 == IF Key_currentTripId \in DOMAIN s1 THEN s1
              ELSE setItem(s1, Key_currentTripId, tripId)
    IN IF ~ok[1] THEN [ret |-> FALSE, storage |-> storage]
       ELSE IF ~ok[2] THEN [ret |-> FALSE, storage |-> s1]
       ELSE [ret |-> TRUE, storage |-> s2]

\* storeTripData emptying the partition it stores into: the route and the
\* places kept under the identity are removed
storeTripData_clearsPartition(storage, tripData, ok) ==
  IF tripData = undefined
  THEN [ret |-> FALSE, storage |-> storage]
  ELSE
    LET tripId == generateTripId(tripData.fromPlaceId, tripData.toPlaceId)
        dataWithTripId == Spread(tripData, [tripId |-> tripId])
        storageKey == getTripStorageKey(tripId, Str_data)
        s1 == setItem(storage, storageKey, JSONstringify(dataWithTripId))
        s2 == setItem(s1, Key_currentTripId, tripId)
        s3 == removeItem(removeItem(s2, getTripStorageKey(tripId, Str_route)),
                         getTripStorageKey(tripId, Str_places))
    IN IF ~ok[1] THEN [ret |-> FALSE, storage |-> storage]
       ELSE IF ~ok[2] THEN [ret |-> FALSE, storage |-> s1]
       ELSE [ret |-> TRUE, storage |-> s3]


\* storeTripData writing the currentTripId pointer before the record
storeTripData_pointerFirst(storage, tripData, ok) ==
  IF tripData = undefined
  THEN [ret |-> FALSE, storage |-> storage]
  ELSE
    LET tripId == generateTripId(tripData.fromPlaceId, tripData.toPlaceId)
        dataWithTripId == Spread(tripData, [tripId |-> tripId])
        storageKey == getTripStorageKey(tripId, Str_data)
        s1 == setItem(storage, Key_currentTripId, tripId)
        s2 == setItem(s1, storageKey, JSONstringify(dataWithTripId))
    IN IF ~ok[1] THEN [ret |-> FALSE, storage |-> storage]
       ELSE IF ~ok[2] THEN [ret |-> FALSE, storage |-> s1]
       ELSE [ret |-> TRUE, storage |-> s2]


storeTripData(storage, tripData, ok) ==
  IF tripData = undefined
  THEN [ret |-> FALSE, storage |-> storage]      \* tripData.fromPlaceId throws, caught
  ELSE
    LET tripId == generateTripId(tripData.fromPlaceId, tripData.toPlaceId)
        dataWithTripId == Spread(tripData, [tripId |-> tripId])
        storageKey == getTripStorageKey(tripId, Str_data)
        s1 == setItem(storage, storageKey, JSONstringify(dataWithTripId))
        s2 == setItem(s1, Key_currentTripId, tripId)
    IN IF ~ok[1] THEN [ret |-> FALSE, storage |-> storage]
       ELSE IF ~ok[2] THEN [ret |-> FALSE, storage |-> s1]
       ELSE [ret |-> TRUE, storage |-> s2]

\* the read shared by the three getters: the value under the active
\* identity's key of the given type, or null
getCurrent(storage, dataType) ==
  LET currentTripId == getItem(storage, Key_currentTripId)
  IN IF Falsy(currentTripId) THEN null
     ELSE LET stored == getItem(storage, getTripStorageKey(currentTripId, dataType))
          IN IF Falsy(stored) THEN null ELSE JSONparse(stored)

getCurrentTripData(storage) == getCurrent(storage, Str_data)

getCurrentRouteData(storage) == getCurrent(storage, Str_route)

getCurrentPlacesData(storage) == getCurrent(storage, Str_places)

storeRouteData(storage, routeData, ok) ==
  LET currentTripId == getItem(storage, Key_currentTripId)
      storageKey == getTripStorageKey(currentTripId, Str_route)
  IN IF Falsy(currentTripId) THEN [ret |-> FALSE, storage |-> storage]
     ELSE IF ~ok[1] THEN [ret |-> FALSE, storage |-> storage]
     ELSE [ret |-> TRUE, storage |-> setItem(storage, storageKey, JSONstringify(routeData))]

\* storePlacesData reporting success whether or not setItem threw
storePlacesData_swallows(storage, placesData, ok) ==
  LET currentTripId == getItem(storage, Key_currentTripId)
      storageKey == getTripStorageKey(currentTripId, Str_places)
  IN IF Falsy(currentTripId) THEN [ret |-> FALSE, storage |-> storage]
     ELSE IF ~ok[1] THEN [ret |-> TRUE, storage |-> storage]
     ELSE [ret |-> TRUE,
           storage |-> setItem(storage, storageKey, JSONstringifyArray(placesData))]

storePlacesData(storage, placesData, ok) ==
  LET currentTripId == getItem(storage, Key_currentTripId)
      storageKey == getTripStorageKey(currentTripId, Str_places)
  IN IF Falsy(currentTripId) THEN [ret |-> FALSE, storage |-> storage]
     ELSE IF ~ok[1] THEN [ret |-> FALSE, storage |-> storage]
     ELSE [ret |-> TRUE,
           storage |-> setItem(storage, storageKey, JSONstringifyArray(placesData))]

\* updateTripData without the currentTripId check: with no active identity
\* the template string makes the key "trip_null_data"
updateTripData_noCheck(storage, updatedTripData, ok) ==
  LET currentTripId == getItem(storage, Key_currentTripId)
      idText == IF Falsy(currentTripId) THEN <<"n","u","l","l">> ELSE currentTripId
      dataWithTripId == Spread(updatedTripData, [tripId |-> currentTripId])
      storageKey == getTripStorageKey(idText, Str_data)
  IN IF ~ok[1] THEN [ret |-> FALSE, storage |-> storage]
     ELSE [ret |-> TRUE,
           storage |-> setItem(storage, storageKey, JSONstringify(dataWithTripId))]

\* updateTripData filing the record under the tripId it carries, when it
\* carries one
updateTripData_byRecordId(storage, updatedTripData, ok) ==
  LET currentTripId == getItem(storage, Key_currentTripId)
      tripId == IF "tripId" \in DOMAIN updatedTripData THEN updatedTripData.tripId
                ELSE currentTripId
      storageKey == getTripStorageKey(tripId, Str_data)
  IN IF Falsy(currentTripId) THEN [ret |-> FALSE, storage |-> storage]
     ELSE IF ~ok[1] THEN [ret |-> FALSE, storage |-> storage]
     ELSE [ret |-> TRUE,
           storage |-> setItem(storage, storageKey,
                               JSONstringify(Spread(updatedTripData, [tripId |-> tripId])))]


updateTripData(storage, updatedTripData, ok) ==
  LET currentTripId == getItem(storage, Key_currentTripId)
      dataWithTripId == Spread(updatedTripData, [tripId |-> currentTripId])
      storageKey == getTripStorageKey(currentTripId, Str_data)
  IN IF Falsy(currentTripId) THEN [ret |-> FALSE, storage |-> storage]
     ELSE IF ~ok[1] THEN [ret |-> FALSE, storage |-> storage]
     ELSE [ret |-> TRUE,
           storage |-> setItem(storage, storageKey, JSONstringify(dataWithTripId))]

\* the keys the first forEach of cleanupOldTripData removes
OldTripKeys(storage) ==
  LET currentTripId == getItem(storage, Key_currentTripId)
  IN {key \in DOMAIN storage :
        /\ startsWith(key, Str_trip_)
        /\ ~Falsy(currentTripId)
        /\ ~includes(key, currentTripId)}

\* cleanupOldTripData removing one key per run
cleanupOldTripData_oneKey(storage) ==
  LET currentTripId == getItem(storage, Key_currentTripId)
      legacy == IF Falsy(currentTripId) THEN {} ELSE LegacyKeys
      remove == (OldTripKeys(storage) \cup legacy) \cap DOMAIN storage
      keep == IF remove = {} THEN DOMAIN storage
              ELSE DOMAIN storage \ {CHOOSE key \in remove : TRUE}
  IN [k \in keep |-> storage[k]]

\* cleanupOldTripData removing the currentTripId pointer with the old keys
cleanupOldTripData_dropsPointer(storage) ==
  LET currentTripId == getItem(storage, Key_currentTripId)
      legacy == IF Falsy(currentTripId) THEN {} ELSE LegacyKeys
      keep == ((DOMAIN storage \ OldTripKeys(storage)) \ legacy) \ {Key_currentTripId}
  IN [k \in keep |-> storage[k]]


cleanupOldTripData(storage) ==
  LET currentTripId == getItem(storage, Key_currentTripId)
      legacy == IF Falsy(currentTripId) THEN {} ELSE LegacyKeys
      keep == (DOMAIN storage \ OldTripKeys(storage)) \ legacy
  IN [k \in keep |-> storage[k]]

\* hasValidCurrentTrip without its test of toPlaceId
hasValidCurrentTrip_fromOnly(storage) ==
  LET currentTripId == getItem(storage, Key_currentTripId)
      tripData == getCurrentTripData(storage)
  IN IF Falsy(currentTripId) THEN FALSE
     ELSE tripData # null /\ ~Falsy(Prop(tripData, "fromPlaceId"))

hasValidCurrentTrip(storage) ==
  LET currentTripId == getItem(storage, Key_currentTripId)
      tripData == getCurrentTripData(storage)
  IN IF Falsy(currentTripId) THEN FALSE
     ELSE /\ tripData # null
          /\ ~Falsy(Prop(tripData, "fromPlaceId"))
          /\ ~Falsy(Prop(tripData, "toPlaceId"))

----------------------------------------------------------------------------
(* Saved-trip registry (localStorage) *)

\* x || undefined, for x an object, an array or null
OrUndefined(x) == IF x = null THEN undefined ELSE x

\* Array.prototype.findIndex, 1-based, for the sequence of the callback's
\* results; 0 when the callback holds of no element
FindIndex(tests) ==
  IF \E i \in 1..Len(tests) : tests[i]
  THEN CHOOSE i \in 1..Len(tests) : tests[i] /\ \A j \in 1..(i - 1) : ~tests[j]
  ELSE 0

getSavedTrips(storage) ==
  LET stored == getItem(storage, Key_savedTrips)
  IN IF Falsy(stored) THEN <<>> ELSE JSONparse(stored)

\* getSavedTrip falling back on the first snapshot
getSavedTrip_orFirst(storage, tripId) ==
  LET savedTrips == getSavedTrips(storage)
      index == FindIndex([i \in 1..Len(savedTrips) |-> savedTrips[i].id = tripId])
  IN IF savedTrips = <<>> THEN null
     ELSE IF index = 0 THEN savedTrips[1] ELSE savedTrips[index]

getSavedTrip(storage, tripId) ==
  LET savedTrips == getSavedTrips(storage)
      index == FindIndex([i \in 1..Len(savedTrips) |-> savedTrips[i].id = tripId])
  IN IF index = 0 THEN null ELSE savedTrips[index]

\* `saved_${Date.now()}_${Math.random().toString(36).substr(2, 9)}`
generateUniqueId(clock, random) == <<"saved_", clock, random>>

\* saveCurrentTrip putting the new snapshot first
saveCurrentTrip_prepends(session, storage, tripName, description, id, clock, ok) ==
  LET tripData == getCurrentTripData(session)
      savedTrip == [id |-> id, name |-> tripName, description |-> description,
                    savedAt |-> clock, tripData |-> tripData,
                    routeData |-> OrUndefined(getCurrentRouteData(session)),
                    placesData |-> OrUndefined(getCurrentPlacesData(session))]
      updatedTrips == <<savedTrip>> \o getSavedTrips(storage)
  IN IF tripData = null THEN [ret |-> FALSE, storage |-> storage]
     ELSE IF ~ok[1] THEN [ret |-> FALSE, storage |-> storage]
     ELSE [ret |-> TRUE,
           storage |-> setItem(storage, Key_savedTrips, JSONstringifyArray(updatedTrips))]

\* saveCurrentTrip without its test of the trip record
saveCurrentTrip_noCheck(session, storage, tripName, description, id, clock, ok) ==
  LET savedTrip == [id |-> id, name |-> tripName, description |-> description,
                    savedAt |-> clock, tripData |-> getCurrentTripData(session),
                    routeData |-> OrUndefined(getCurrentRouteData(session)),
                    placesData |-> OrUndefined(getCurrentPlacesData(session))]
      updatedTrips == Append(getSavedTrips(storage), savedTrip)
  IN IF ~ok[1] THEN [ret |-> FALSE, storage |-> storage]
     ELSE [ret |-> TRUE,
           storage |-> setItem(storage, Key_savedTrips, JSONstringifyArray(updatedTrips))]

\* session is the session storage read, storage the local storage written
saveCurrentTrip(session, storage, tripName, description, id, clock, ok) ==
  LET tripData == getCurrentTripData(session)
      routeData == getCurrentRouteData(session)
      placesData == getCurrentPlacesData(session)
      savedTrip == [id |-> id, name |-> tripName, description |-> description,
                    savedAt |-> clock, tripData |-> tripData,
                    routeData |-> OrUndefined(routeData),
                    placesData |-> OrUndefined(placesData)]
      updatedTrips == Append(getSavedTrips(storage), savedTrip)
  IN IF tripData = null THEN [ret |-> FALSE, storage |-> storage]
     ELSE IF ~ok[1] THEN [ret |-> FALSE, storage |-> storage]
     ELSE [ret |-> TRUE,
           storage |-> setItem(storage, Key_savedTrips, JSONstringifyArray(updatedTrips))]

\* updateSavedTrip moving the updated snapshot to the end of the array
updateSavedTrip_movesToEnd(session, storage, tripId, tripName, description, ok) ==
  LET tripData == getCurrentTripData(session)
      existingTrips == getSavedTrips(storage)
      tripIndex == FindIndex([i \in 1..Len(existingTrips) |-> existingTrips[i].id = tripId])
      updatedTrip == [id |-> tripId, name |-> tripName, description |-> description,
                      savedAt |-> existingTrips[tripIndex].savedAt, tripData |-> tripData,
                      routeData |-> OrUndefined(getCurrentRouteData(session)),
                      placesData |-> OrUndefined(getCurrentPlacesData(session))]
      moved == Append(SubSeq(existingTrips, 1, tripIndex - 1)
                        \o SubSeq(existingTrips, tripIndex + 1, Len(existingTrips)),
                      updatedTrip)
  IN IF tripData = null THEN [ret |-> FALSE, storage |-> storage]
     ELSE IF tripIndex = 0 THEN [ret |-> FALSE, storage |-> storage]
     ELSE IF ~ok[1] THEN [ret |-> FALSE, storage |-> storage]
     ELSE [ret |-> TRUE,
           storage |-> setItem(storage, Key_savedTrips, JSONstringifyArray(moved))]

updateSavedTrip(session, storage, tripId, tripName, description, ok) ==
  LET tripData == getCurrentTripData(session)
      routeData == getCurrentRouteData(session)
      placesData == getCurrentPlacesData(session)
      existingTrips == getSavedTrips(storage)
      tripIndex == FindIndex([i \in 1..Len(existingTrips) |-> existingTrips[i].id = tripId])
      updatedTrip == [id |-> tripId, name |-> tripName, description |-> description,
                      savedAt |-> existingTrips[tripIndex].savedAt, tripData |-> tripData,
                      routeData |-> OrUndefined(routeData),
                      placesData |-> OrUndefined(placesData)]
      replaced == [existingTrips EXCEPT ![tripIndex] = updatedTrip]
  IN IF tripData = null THEN [ret |-> FALSE, storage |-> storage]
     ELSE IF tripIndex = 0 THEN [ret |-> FALSE, storage |-> storage]
     ELSE IF ~ok[1] THEN [ret |-> FALSE, storage |-> storage]
     ELSE [ret |-> TRUE,
           storage |-> setItem(storage, Key_savedTrips, JSONstringifyArray(replaced))]

\* deleteSavedTrip reporting an id that no snapshot has
deleteSavedTrip_falseWhenAbsent(storage, tripId, ok) ==
  LET savedTrips == getSavedTrips(storage)
      updatedTrips == SelectSeq(savedTrips, LAMBDA trip : trip.id # tripId)
  IN IF ~ok[1] \/ updatedTrips = savedTrips THEN [ret |-> FALSE, storage |-> storage]
     ELSE [ret |-> TRUE,
           storage |-> setItem(storage, Key_savedTrips, JSONstringifyArray(updatedTrips))]

deleteSavedTrip(storage, tripId, ok) ==
  LET savedTrips == getSavedTrips(storage)
      updatedTrips == SelectSeq(savedTrips, LAMBDA trip : trip.id # tripId)
  IN IF ~ok[1] THEN [ret |-> FALSE, storage |-> storage]
     ELSE [ret |-> TRUE,
           storage |-> setItem(storage, Key_savedTrips, JSONstringifyArray(updatedTrips))]

\* the load without its storeRouteData and storePlacesData calls
LoadSnapshot_tripOnly(session, snapshot, ok) ==
  LET stored == storeTripData(session, Prop(snapshot, "tripData"), <<ok[1], ok[2]>>)
  IN [ret |-> stored.ret, storage |-> stored.storage]

\* the body shared by loadSavedTrip and loadSharedTrip once the snapshot is
\* at hand: storeTripData, then storeRouteData and storePlacesData for the
\* parts the snapshot has, their return values ignored
LoadSnapshot(session, snapshot, ok) ==
  LET stored == storeTripData(session, Prop(snapshot, "tripData"), <<ok[1], ok[2]>>)
      routeData == Prop(snapshot, "routeData")
      placesData == Prop(snapshot, "placesData")
      s1 == IF routeData # undefined
            THEN storeRouteData(stored.storage, routeData, <<ok[3]>>).storage
            ELSE stored.storage
      s2 == IF placesData # undefined
            THEN storePlacesData(s1, placesData, <<ok[4]>>).storage
            ELSE s1
  IN IF ~stored.ret THEN [ret |-> FALSE, storage |-> stored.storage]
     ELSE [ret |-> TRUE, storage |-> s2]

\* session is the session storage written, storage the local storage read
loadSavedTrip(session, storage, tripId, ok) ==
  LET savedTrip == getSavedTrip(storage, tripId)
  IN IF savedTrip = null THEN [ret |-> FALSE, storage |-> session]
     ELSE LoadSnapshot(session, savedTrip, ok)

----------------------------------------------------------------------------
(* Share codec.  A string is represented by how it was built:                *)
(*   [json |-> v]      the JSON text of v                                    *)
(*   [uri |-> s]       encodeURIComponent(s)                                 *)
(*   [b64 |-> s]       btoa(s)                                               *)
(*   [chars |-> ..]    any other text; badEscape says whether it contains a  *)
(*                     malformed %-escape, base64 whether it is made of      *)
(*                     base64 characters only                                *)
(* A decoding step returns [thrown |-> TRUE] where the JavaScript function   *)
(* throws.                                                                   *)

Thrown == [thrown |-> TRUE]

encodeURIComponent(s) == [uri |-> s]

decodeURIComponent(s) ==
  IF "uri" \in DOMAIN s THEN s.uri
  ELSE IF "chars" \in DOMAIN s /\ s.badEscape THEN Thrown
  ELSE s

btoa(s) == [b64 |-> s]

atob(s) ==
  IF "b64" \in DOMAIN s THEN s.b64
  ELSE IF "chars" \in DOMAIN s /\ s.base64 THEN [badEscape |-> FALSE, base64 |-> FALSE,
                                                chars |-> "bytes"]
  ELSE Thrown

\* JSON.parse of an arbitrary string
JSONparseText(s) == IF IsJSONText(s) THEN JSONparse(s) ELSE Thrown

\* compressTripData without the "|| undefined" of the two optional parts
compressTripData_keepsNull(session) ==
  LET tripData == getCurrentTripData(session)
      routeData == getCurrentRouteData(session)
      placesData == getCurrentPlacesData(session)
      shareableTrip == [tripData |-> tripData, routeData |-> routeData,
                        placesData |-> placesData]
  IN IF tripData = null THEN null
     ELSE btoa(encodeURIComponent(JSONstringify(shareableTrip)))

compressTripData(session) ==
  LET tripData == getCurrentTripData(session)
      routeData == getCurrentRouteData(session)
      placesData == getCurrentPlacesData(session)
      shareableTrip == [tripData |-> tripData,
                        routeData |-> OrUndefined(routeData),
                        placesData |-> OrUndefined(placesData)]
      jsonString == JSONstringify(shareableTrip)
  IN IF tripData = null THEN null ELSE btoa(encodeURIComponent(jsonString))

decompressTripData(compressedData) ==
  LET decoded == atob(compressedData)
      jsonString == IF decoded = Thrown THEN Thrown ELSE decodeURIComponent(decoded)
      shareableTrip == IF jsonString = Thrown THEN Thrown ELSE JSONparseText(jsonString)
  IN IF shareableTrip = Thrown THEN null ELSE shareableTrip

loadSharedTrip(session, compressedData, ok) ==
  LET shareableTrip == decompressTripData(compressedData)
  IN IF shareableTrip = null THEN [ret |-> FALSE, storage |-> session]
     ELSE LoadSnapshot(session, shareableTrip, ok)

generateShareableUrl(session, baseUrl) ==
  LET compressedData == compressTripData(session)
  IN IF compressedData = null THEN null
     ELSE [base |-> baseUrl, path |-> "/shared/trip",
           data |-> encodeURIComponent(compressedData)]

\* searchParams.get('data') for a URL built as above
searchParamsGet(url) == decodeURIComponent(url.data)

----------------------------------------------------------------------------
(* Inputs *)

\* place-reference pairs a trip is planned for.  An empty place id is what
\* the home page submits when the user typed a location without picking a
\* suggestion.  <<"">>-<<"">> hashes to 45 and <<"">>-"80" to 45029; "Aa"-"BB"
\* and "BB"-"Aa" hash to the same value.
PlaceIdPairs ==
  { << <<>>, <<>> >>,
    << <<>>, <<"8","0">> >>,
    << <<"A","a">>, <<"B","B">> >>,
    << <<"B","B">>, <<"A","a">> >> }

\* the TripData object handleSubmit builds for a pair
FormTrip(pair) ==
  [fromPlaceId |-> pair[1], toPlaceId |-> pair[2], from |-> "SF", to |-> "LA"]

\* places a search returns
Cafe ==
  [displayName |-> [text |-> "Cafe"], formattedAddress |-> "1 Main St",
   location |-> [latitude |-> 37, longitude |-> 122], category |-> "restaurants"]
CafePOI ==
  [displayName |-> [text |-> "Cafe"], formattedAddress |-> "1 Main St",
   location |-> [latitude |-> 37, longitude |-> 122], category |-> "points_of_interest"]
Park ==
  [displayName |-> [text |-> "Park"], formattedAddress |-> "2 Oak Ave",
   location |-> [latitude |-> 36, longitude |-> 121], category |-> "custom"]

\* { ...place, addedAt }
TripPlaceOf(place, addedAt) == Spread(place, [addedAt |-> addedAt])

\* a route as calculateAndDisplayRoute stores it for the given waypoints
RouteFor(waypoints, timestamp) ==
  [waypoints |-> waypoints,
   timestamp |-> timestamp,
   distanceMeters |-> 615000 + 1000 * Len(waypoints),
   duration |-> "22000",
   polyline |-> [encodedPolyline |-> "abc"]]

\* trip records handed to the store's exported functions: the two form
\* submissions whose identities are trip_45 and trip_45029, a record read
\* back from the store with a place added, and a record that carries the
\* tripId of another trip
TripRecords ==
  { FormTrip(<< <<>>, <<>> >>),
    FormTrip(<< <<>>, <<"8","0">> >>),
    Spread(FormTrip(<< <<>>, <<"8","0">> >>),
           [tripId |-> generateTripId(<<>>, <<"8","0">>),
            places |-> <<TripPlaceOf(Cafe, 0)>>]),
    Spread(FormTrip(<< <<>>, <<>> >>),
           [tripId |-> generateTripId(<<>>, <<"8","0">>)]) }

\* the record of a planned trip as handleButtonClick writes it when a place
\* is added
TripsWithPlaces ==
  { Spread(FormTrip(<< <<"A","a">>, <<"B","B">> >>), [places |-> <<TripPlaceOf(Cafe, 0)>>]) }

RouteRecords == { RouteFor(<<>>, 0) }

PlacesArrays == { <<>>, <<Cafe>> }

\* outcomes of n consecutive setItem calls
WriteOutcomes(n) == [1..n -> BOOLEAN]

\* the outcomes of n writes of which at most one throws
AtMostOneFails(n) == {ok \in WriteOutcomes(n) : \A i, j \in 1..n : ~ok[i] /\ ~ok[j] => i = j}

----------------------------------------------------------------------------
(* State *)

NoCall == [ret |-> FALSE, op |-> "none", arg |-> null, val |-> null]

Call(op, arg, ret, val) == [ret |-> ret, op |-> op, arg |-> arg, val |-> val]

\* serial counts the marker clicks so far and names the info window and the
\* handleButtonClick closure each click creates
MapInit == [serial |-> 0, listeners |-> <<>>, timers |-> <<>>, openWindows |-> {},
            routeRequests |-> {}]

\* mounted: the planner page is on screen with a trip, so that the map and
\* the search panel are rendered
PlannerInit == [places |-> <<>>, mounted |-> FALSE, isLoadedTrip |-> FALSE,
                currentSavedTripId |-> null]

\* allPlaces: category id -> results, for the categories searched so far;
\* checkInterval: the 2 s timer that waits for a route is running;
\* pending: the searchPlacesAlongRoute calls awaiting their responses
SearchInit == [allPlaces |-> [c \in {} |-> <<>>], loadedCategories |-> {},
               customSearchQuery |-> FALSE, searchCompleted |-> FALSE,
               checkInterval |-> FALSE, pending |-> {}]

\* url: the share URL the planner produced last (null: none); shared: what
\* the three getters returned when it was built; storage, visited, success:
\* the session storage of the visitor of that URL, whether the shared page
\* has loaded there, and what loadSharedTrip returned
SharedInit == [storage |-> EmptyStorage, url |-> null, shared |-> null,
               visited |-> FALSE, success |-> FALSE]

Init ==
  /\ sessionStorage = EmptyStorage
  /\ localStorage = EmptyStorage
  /\ now = 0
  /\ last = NoCall
  /\ map = MapInit
  /\ planner = PlannerInit
  /\ search = SearchInit
  /\ sharedSession = SharedInit
  /\ origin = null

----------------------------------------------------------------------------
(* The store's exported functions, called directly *)

ApiStoreTripData(tripData, ok) ==
  LET r == storeTripData(sessionStorage, tripData, ok)
  IN /\ sessionStorage' = r.storage
     /\ last' = Call("storeTripData", tripData, r.ret, null)
     /\ UNCHANGED <<localStorage, now, map, planner, search, sharedSession, origin>>

\* updateTripData writing the record through to the snapshots as well
ApiUpdateTripData_linked(tripData, ok) ==
  LET r == updateTripData(sessionStorage, tripData, ok)
      savedTrips == getSavedTrips(localStorage)
      linked == [i \in 1..Len(savedTrips) |->
                   [savedTrips[i] EXCEPT !.tripData = getCurrentTripData(r.storage)]]
  IN /\ sessionStorage' = r.storage
     /\ last' = Call("updateTripData", tripData, r.ret, null)
     /\ localStorage' = IF r.ret /\ savedTrips # <<>>
                         THEN setItem(localStorage, Key_savedTrips, JSONstringifyArray(linked))
                         ELSE localStorage
     /\ UNCHANGED <<now, map, planner, search, sharedSession, origin>>

ApiUpdateTripData(tripData, ok) ==
  LET r == updateTripData(sessionStorage, tripData, ok)
  IN /\ sessionStorage' = r.storage
     /\ last' = Call("updateTripData", tripData, r.ret, null)
     /\ UNCHANGED <<localStorage, now, map, planner, search, sharedSession, origin>>

ApiStoreRouteData(routeData, ok) ==
  LET r == storeRouteData(sessionStorage, routeData, ok)
  IN /\ sessionStorage' = r.storage
     /\ last' = Call("storeRouteData", routeData, r.ret, null)
     /\ UNCHANGED <<localStorage, now, map, planner, search, sharedSession, origin>>

ApiStorePlacesData(placesData, ok) ==
  LET r == storePlacesData(sessionStorage, placesData, ok)
  IN /\ sessionStorage' = r.storage
     /\ last' = Call("storePlacesData", placesData, r.ret, null)
     /\ UNCHANGED <<localStorage, now, map, planner, search, sharedSession, origin>>

ApiCleanupOldTripData ==
  /\ sessionStorage' = cleanupOldTripData(sessionStorage)
  /\ last' = Call("cleanupOldTripData", null, TRUE, null)
  /\ UNCHANGED <<localStorage, now, map, planner, search, sharedSession, origin>>

ApiHasValidCurrentTrip ==
  /\ last' = Call("hasValidCurrentTrip", null, hasValidCurrentTrip(sessionStorage), null)
  /\ UNCHANGED <<sessionStorage, localStorage, now, map, planner, search, sharedSession, origin>>

\* the route generator's own write of the route under the unscoped key
\* 'routeData'; a throwing setItem is caught and logged
RouteGeneratorStore(routeData, ok) ==
  /\ sessionStorage' = IF ok[1] THEN setItem(sessionStorage, Key_routeData, JSONstringify(routeData))
                        ELSE sessionStorage
  /\ last' = Call("RouteGenerator", routeData, ok[1], null)
  /\ UNCHANGED <<localStorage, now, map, planner, search, sharedSession, origin>>

NextStore ==
  \/ \E tripData \in TripRecords, ok \in WriteOutcomes(2) : ApiStoreTripData(tripData, ok)
  \/ \E tripData \in TripRecords, ok \in WriteOutcomes(1) : ApiUpdateTripData(tripData, ok)
  \/ \E routeData \in RouteRecords, ok \in WriteOutcomes(1) : ApiStoreRouteData(routeData, ok)
  \/ \E placesData \in PlacesArrays, ok \in WriteOutcomes(1) : ApiStorePlacesData(placesData, ok)
  \/ ApiCleanupOldTripData
  \/ \E routeData \in RouteRecords, ok \in WriteOutcomes(1) : RouteGeneratorStore(routeData, ok)

SpecStore == Init /\ [][NextStore]_vars

----------------------------------------------------------------------------
(* Map component (components/GoogleMap.tsx) *)

\* the place ids compared by handleButtonClick are the hash of
\* "<displayName.text>-<formattedAddress>"; the id is represented by the
\* pair it is computed from
generatePlaceId(place) == <<place.displayName.text, place.formattedAddress>>

\* getTripData forgetting the places of the stored record
getTripData_noPlaces(storage) ==
  LET tripData == getCurrentTripData(storage)
  IN IF tripData # null
     THEN Spread(tripData, [places |-> <<>>])
     ELSE [fromPlaceId |-> <<>>, toPlaceId |-> <<>>, from |-> "", to |-> "",
           places |-> <<>>]


getTripData(storage) ==
  LET tripData == getCurrentTripData(storage)
  IN IF tripData # null
     THEN Spread(tripData,
                 [places |-> IF "places" \in DOMAIN tripData THEN tripData.places ELSE <<>>])
     ELSE [fromPlaceId |-> <<>>, toPlaceId |-> <<>>, from |-> "", to |-> "",
           places |-> <<>>]

isPlaceInTrip(place, tripData) ==
  \E i \in 1..Len(tripData.places) :
    /\ tripData.places[i].displayName.text = place.displayName.text
    /\ tripData.places[i].formattedAddress = place.formattedAddress

HasLocation(place) ==
  /\ "location" \in DOMAIN place
  /\ place.location.latitude # 0
  /\ place.location.longitude # 0

RECURSIVE convertTripPlacesToWaypoints(_)
convertTripPlacesToWaypoints(tripPlaces) ==
  IF tripPlaces = <<>> THEN <<>>
  ELSE LET place == Head(tripPlaces)
           rest == convertTripPlacesToWaypoints(Tail(tripPlaces))
       IN IF HasLocation(place)
          THEN <<[location |-> [lat |-> place.location.latitude,
                                lng |-> place.location.longitude]]>> \o rest
          ELSE rest

getTripPlacesForWaypoints(storage) == getTripData(storage).places

\* the elements of a sequence
Elems(seq) == {seq[i] : i \in 1..Len(seq)}

\* a marker click on a search-result marker (the places of the page are the
\* results of its last search, all of the category shown).  closed is the
\* info window the listener's closure holds as currentInfoWindow (null:
\* none), which it closes without a closeclick event.
MarkerClick(place, closed) ==
  /\ planner.mounted
  /\ ~planner.isLoadedTrip
  /\ place \in Elems(planner.places)
  /\ "location" \in DOMAIN place
  /\ map.serial < MaxListeners
  /\ closed \in map.openWindows \cup {null}
  /\ LET currentTripData == getTripData(sessionStorage)
         placeCurrentlyInTrip == isPlaceInTrip(place, currentTripData)
         n == map.serial + 1
         infoWindow == [n |-> n, placeId |-> generatePlaceId(place),
                        disabled |-> placeCurrentlyInTrip]
     IN map' = [map EXCEPT
                  !.serial = n,
                  !.openWindows = (@ \ {closed}) \cup {infoWindow},
                  !.timers = IF placeCurrentlyInTrip THEN @
                             ELSE Append(@, [n |-> n, place |-> place])]
  /\ UNCHANGED <<sessionStorage, localStorage, now, last, planner, search, sharedSession, origin>>

\* the 50 ms timer of a marker click registers its handleButtonClick on document
ListenerTimer ==
  /\ map.timers # <<>>
  /\ map' = [map EXCEPT !.timers = Tail(@), !.listeners = Append(@, Head(map.timers))]
  /\ UNCHANGED <<sessionStorage, localStorage, now, last, planner, search, sharedSession, origin>>

\* document.removeEventListener('click', handleButtonClick) for the closure n
RemoveListener(listeners, n) == SelectSeq(listeners, LAMBDA l : l.n # n)

\* the user closes an info window with its close button
CloseClick(infoWindow) ==
  /\ infoWindow \in map.openWindows
  /\ map' = [map EXCEPT !.openWindows = @ \ {infoWindow},
                        !.listeners = RemoveListener(@, infoWindow.n)]
  /\ UNCHANGED <<sessionStorage, localStorage, now, last, planner, search, sharedSession, origin>>

\* the document click listeners run, in registration order, for a click on
\* the add-to-trip button with the given place id.  st carries the storage,
\* the route requests, and whether some updateTripData succeeded.
RECURSIVE RunButtonListeners(_, _, _, _, _)
RunButtonListeners(listeners, placeId, ok, clock, st) ==
  IF listeners = <<>> THEN st
  ELSE
    LET l == Head(listeners)
        latestTripData == getTripData(st.storage)
        newTripPlace == TripPlaceOf(l.place, clock)
        updatedTripData ==
          Spread(latestTripData, [places |-> Append(latestTripData.places, newTripPlace)])
        saved == updateTripData(st.storage, updatedTripData, <<ok[l.n]>>)
        \* handlePlaceAddedToTrip: recalculate the route with the new waypoints
        updatedWaypoints ==
          convertTripPlacesToWaypoints(getTripPlacesForWaypoints(saved.storage))
        after ==
          IF saved.ret
          THEN [storage |-> saved.storage,
                routeRequests |-> st.routeRequests
                                    \cup {[tripId |-> getItem(saved.storage, Key_currentTripId),
                                           waypoints |-> updatedWaypoints]},
                added |-> TRUE,
                ran |-> st.ran \cup {l.n}]
          ELSE [st EXCEPT !.ran = @ \cup {l.n}]
    IN IF generatePlaceId(l.place) = placeId
       THEN RunButtonListeners(Tail(listeners), placeId, ok, clock, after)
       ELSE RunButtonListeners(Tail(listeners), placeId, ok, clock, st)

\* a click on the enabled add-to-trip button of an open info window
ButtonClick(infoWindow, ok) ==
  /\ infoWindow \in map.openWindows
  /\ ~infoWindow.disabled
  /\ LET st == RunButtonListeners(map.listeners, infoWindow.placeId, ok, now,
                                  [storage |-> sessionStorage,
                                   routeRequests |-> map.routeRequests,
                                   added |-> FALSE, ran |-> {}])
     IN /\ sessionStorage' = st.storage
        /\ map' = [map EXCEPT
                     !.listeners = SelectSeq(@, LAMBDA l : l.n \notin st.ran),
                     !.routeRequests = st.routeRequests,
                     !.openWindows =
                        IF st.added
                        THEN (@ \ {infoWindow}) \cup {[infoWindow EXCEPT !.disabled = TRUE]}
                        ELSE @]
        /\ last' = Call("handleButtonClick", null, st.added, null)
  /\ UNCHANGED <<localStorage, now, planner, search, sharedSession, origin>>

\* a response that is dropped when another trip has become active since the
\* request was made
RouteResponse_dropsStale(request, found, ok) ==
  /\ request \in map.routeRequests
  /\ map' = [map EXCEPT !.routeRequests = @ \ {request}]
  /\ IF found /\ request.tripId = getItem(sessionStorage, Key_currentTripId)
     THEN LET r == storeRouteData(sessionStorage, RouteFor(request.waypoints, now), ok)
          IN /\ sessionStorage' = r.storage
             /\ last' = Call("storeRouteData", null, r.ret, null)
     ELSE /\ last' = Call("storeRouteData", null, FALSE, null)
          /\ UNCHANGED sessionStorage
  /\ UNCHANGED <<localStorage, now, planner, search, sharedSession, origin>>

\* the response of directionsService.route for a request in flight.  A
\* request is the waypoints calculateAndDisplayRoute was called with; tripId
\* is the identity that was active at the call, which the request does not
\* carry and the code does not look at.
RouteResponse(request, found, ok) ==
  /\ request \in map.routeRequests
  /\ map' = [map EXCEPT !.routeRequests = @ \ {request}]
  /\ IF found
     THEN LET r == storeRouteData(sessionStorage, RouteFor(request.waypoints, now), ok)
          IN /\ sessionStorage' = r.storage
             /\ last' = Call("storeRouteData", null, r.ret, null)
     ELSE UNCHANGED <<sessionStorage, last>>
  /\ UNCHANGED <<localStorage, now, planner, search, sharedSession, origin>>

----------------------------------------------------------------------------
(* Search panel (components/RoutePlacesSearch.tsx) *)

\* ids of the SEARCH_CATEGORIES the user searches
Categories == {"points_of_interest", "restaurants"}

\* the places the Places API may return for a category: none, or one place
\* tagged with the category
SearchResults(category) ==
  CASE category = "points_of_interest" -> {<<>>, <<CafePOI>>}
    [] category = "restaurants" -> {<<>>, <<Cafe>>}
    [] category = "custom" -> {<<>>, <<Park>>}

\* cachedPlaces.filter(place => place.category === category.id), per category
GroupByCategory(cachedPlaces) ==
  [c \in Categories |-> SelectSeq(cachedPlaces, LAMBDA place : place.category = c)]

\* the synchronous part of searchPlacesAlongRoute: nothing happens without a
\* stored route; otherwise the request goes out
StartSearch(srch, storage, specificCategory, custom) ==
  LET routeData == getCurrentRouteData(storage)
      category == IF custom THEN "custom"
                  ELSE IF specificCategory # null THEN specificCategory.id
                  ELSE "points_of_interest"
  IN IF routeData = null THEN srch
     ELSE [srch EXCEPT !.searchCompleted = FALSE,
                       !.pending = @ \cup {[category |-> category, custom |-> custom,
                                            stale |-> FALSE]}]

\* handlePlacesDataUpdated of the planner page, when the page is mounted
handlePlacesDataUpdated(pl, storage, detail, ok) ==
  IF pl.mounted
  THEN [planner |-> [pl EXCEPT !.places = detail],
        storage |-> storePlacesData(storage, detail, ok).storage]
  ELSE [planner |-> pl, storage |-> storage]

\* the 2 s interval of the mount effect finds a stored route and runs the
\* initial search
IntervalTick ==
  /\ planner.mounted
  /\ search.checkInterval
  /\ getCurrentRouteData(sessionStorage) # null
  /\ Cardinality(search.pending) < MaxPending
  /\ search' = StartSearch([search EXCEPT !.checkInterval = FALSE], sessionStorage,
                           null, FALSE)
  /\ UNCHANGED <<sessionStorage, localStorage, now, last, map, planner, sharedSession, origin>>

\* the user types into, or empties, the custom search box
SetCustomSearchQuery(nonEmpty) ==
  /\ planner.mounted
  /\ ~planner.isLoadedTrip
  /\ search.customSearchQuery # nonEmpty
  /\ search' = [search EXCEPT !.customSearchQuery = nonEmpty]
  /\ UNCHANGED <<sessionStorage, localStorage, now, last, map, planner, sharedSession, origin>>

\* the category buttons are shown once a search has completed and the custom
\* search box is empty
handleCategoryChange(categoryId) ==
  /\ planner.mounted
  /\ ~planner.isLoadedTrip
  /\ search.searchCompleted
  /\ ~search.customSearchQuery
  /\ categoryId \notin search.loadedCategories
  /\ Cardinality(search.pending) < MaxPending
  /\ search' = StartSearch(search, sessionStorage, [id |-> categoryId],
                           search.customSearchQuery)
  /\ UNCHANGED <<sessionStorage, localStorage, now, last, map, planner, sharedSession, origin>>

\* the "Update Search" button
UpdateSearchClick ==
  /\ planner.mounted
  /\ ~planner.isLoadedTrip
  /\ search.pending = {}
  /\ LET cleared == IF search.customSearchQuery
                    THEN [search EXCEPT !.allPlaces = [c \in {} |-> <<>>],
                                        !.loadedCategories = {}]
                    ELSE search
     IN search' = StartSearch([cleared EXCEPT !.searchCompleted = FALSE], sessionStorage,
                              null, search.customSearchQuery)
  /\ search' # search
  /\ UNCHANGED <<sessionStorage, localStorage, now, last, map, planner, sharedSession, origin>>

\* the rest of searchPlacesAlongRoute, once the Places API has answered:
\* failed is a rejected fetch, results what the API found
SearchResponse(request, failed, results, ok) ==
  /\ request \in search.pending
  /\ results \in SearchResults(request.category)
  /\ LET allPlacesData == IF Len(results) > 0
                          THEN [c \in {request.category} |-> results]
                          ELSE [c \in {} |-> <<>>]
         flatPlacesData == IF Len(results) > 0 THEN results ELSE <<>>
         done == [search EXCEPT !.pending = @ \ {request}]
         shown ==
           IF request.stale THEN done
           ELSE IF request.custom
           THEN [done EXCEPT !.allPlaces = [c \in {"custom"} |-> flatPlacesData],
                             !.searchCompleted = TRUE]
           ELSE [done EXCEPT !.allPlaces = Spread(@, allPlacesData),
                             !.loadedCategories = @ \cup {request.category},
                             !.searchCompleted = TRUE]
         s1 == storePlacesData(sessionStorage, flatPlacesData, <<ok[1]>>)
         heard == handlePlacesDataUpdated(planner, s1.storage, flatPlacesData, <<ok[2]>>)
     IN IF failed
        THEN /\ search' = done
             /\ UNCHANGED <<sessionStorage, planner, last>>
        ELSE /\ search' = shown
             /\ sessionStorage' = heard.storage
             /\ planner' = heard.planner
             /\ last' = Call("searchPlacesAlongRoute", request, s1.ret, flatPlacesData)
  /\ UNCHANGED <<localStorage, now, map, sharedSession, origin>>

----------------------------------------------------------------------------
(* Pages (app/page.tsx, app/planner/page.tsx, app/shared/trip/page.tsx) *)

BaseUrl == "https://trips.example"

\* the home page's form is submitted; on success the router goes to /planner
handleSubmit(pair, ok) ==
  /\ ~planner.mounted
  /\ LET tripData == FormTrip(pair)
         success == storeTripData(sessionStorage, tripData, ok)
     IN /\ sessionStorage' = IF success.ret THEN cleanupOldTripData(success.storage)
                             ELSE success.storage
        /\ last' = Call("handleSubmit", tripData, success.ret, null)
        /\ origin' = IF success.ret THEN null ELSE origin
  /\ UNCHANGED <<localStorage, now, map, planner, search, sharedSession>>

\* savedTrips.find(...) of the planner's mount effect
MatchingTrip(savedTrips, currentTripData) ==
  FindIndex([i \in 1..Len(savedTrips) |->
               /\ savedTrips[i].tripData.from = currentTripData.from
               /\ savedTrips[i].tripData.to = currentTripData.to
               /\ "places" \in DOMAIN savedTrips[i].tripData
               /\ Len(savedTrips[i].tripData.places) = Len(currentTripData.places)])

\* /planner is opened with a valid active trip: the page's mount effect, then
\* the mount effects of the search panel and of the map
OpenPlanner(ok) ==
  /\ ~planner.mounted
  /\ hasValidCurrentTrip(sessionStorage)
  /\ LET currentTripData == getCurrentTripData(sessionStorage)
         hasExistingPlaces == /\ "places" \in DOMAIN currentTripData
                              /\ Len(currentTripData.places) > 0
         savedTrips == getSavedTrips(localStorage)
         matchingTrip == IF hasExistingPlaces
                         THEN MatchingTrip(savedTrips, currentTripData) ELSE 0
         currentPlacesData == getCurrentPlacesData(sessionStorage)
         page == [mounted |-> TRUE,
                  isLoadedTrip |-> hasExistingPlaces,
                  places |-> IF ~hasExistingPlaces /\ currentPlacesData # null
                             THEN currentPlacesData ELSE <<>>,
                  currentSavedTripId |-> IF matchingTrip # 0 THEN savedTrips[matchingTrip].id
                                         ELSE null]
         \* loadCachedPlacesData
         hasCachedData == currentPlacesData # null /\ Len(currentPlacesData) > 0
         heard == IF hasCachedData
                  THEN handlePlacesDataUpdated(page, sessionStorage, currentPlacesData, ok)
                  ELSE [planner |-> page, storage |-> sessionStorage]
         groupedPlaces == GroupByCategory(currentPlacesData)
         \* the initial route calculation of the map
         tripPlaces == getTripPlacesForWaypoints(sessionStorage)
     IN /\ planner' = [heard.planner EXCEPT
                         !.places = IF hasExistingPlaces THEN <<>> ELSE @]
        /\ sessionStorage' = heard.storage
        /\ search' = IF hasCachedData
                     THEN [search EXCEPT
                             !.allPlaces = groupedPlaces,
                             !.loadedCategories = {c \in Categories : Len(groupedPlaces[c]) > 0},
                             !.customSearchQuery = FALSE,
                             !.searchCompleted = TRUE,
                             !.checkInterval = FALSE]
                     ELSE [search EXCEPT
                             !.allPlaces = [c \in {} |-> <<>>],
                             !.loadedCategories = {},
                             !.customSearchQuery = FALSE,
                             !.searchCompleted = FALSE,
                             !.checkInterval = TRUE]
        /\ map' = [map EXCEPT !.routeRequests =
                     @ \cup {[tripId |-> getItem(sessionStorage, Key_currentTripId),
                              waypoints |-> convertTripPlacesToWaypoints(tripPlaces)]}]
  /\ UNCHANGED <<localStorage, now, last, sharedSession, origin>>

\* the user leaves the planner for the home page.  The page's state goes;
\* the click listeners on document, their timers, and the requests in flight
\* stay.
NavigateHome ==
  /\ planner.mounted
  /\ planner' = PlannerInit
  /\ search' = [SearchInit EXCEPT
                  !.pending = {[r EXCEPT !.stale = TRUE] : r \in search.pending}]
  /\ map' = [map EXCEPT !.openWindows = {}]
  /\ UNCHANGED <<sessionStorage, localStorage, now, last, sharedSession, origin>>

TripNames == {"Summer"}
Descriptions == {undefined}
RandomSuffixes == {0, 1}

\* the save modal is confirmed; the 1.5 s timer that follows a success puts
\* the page in view mode
handleSaveTrip(tripName, description, random, ok) ==
  /\ planner.mounted
  /\ planner.currentSavedTripId = null => Len(getSavedTrips(localStorage)) < MaxSaved
  /\ LET success ==
           IF planner.currentSavedTripId # null
           THEN updateSavedTrip(sessionStorage, localStorage, planner.currentSavedTripId,
                                tripName, description, ok)
           ELSE saveCurrentTrip(sessionStorage, localStorage, tripName, description,
                                generateUniqueId(now, random), now, ok)
         savedTrips == getSavedTrips(success.storage)
         newTrip == FindIndex([i \in 1..Len(savedTrips) |-> savedTrips[i].name = tripName])
     IN /\ localStorage' = success.storage
        /\ planner' = [planner EXCEPT
                         !.currentSavedTripId =
                            IF @ = null /\ success.ret /\ newTrip # 0
                            THEN savedTrips[newTrip].id ELSE @,
                         !.isLoadedTrip = IF success.ret THEN TRUE ELSE @,
                         !.places = IF success.ret THEN <<>> ELSE @]
        /\ last' = Call("handleSaveTrip", [name |-> tripName, description |-> description],
                        success.ret, null)
  /\ UNCHANGED <<sessionStorage, now, map, search, sharedSession, origin>>

handleEditTrip ==
  /\ planner.mounted
  /\ planner.isLoadedTrip
  /\ planner' = [planner EXCEPT !.isLoadedTrip = FALSE]
  /\ UNCHANGED <<sessionStorage, localStorage, now, last, map, search, sharedSession, origin>>

\* what the three getters return
Getters(storage) ==
  [tripData |-> getCurrentTripData(storage),
   routeData |-> getCurrentRouteData(storage),
   placesData |-> getCurrentPlacesData(storage)]

handleShareTrip ==
  /\ planner.mounted
  /\ LET url == generateShareableUrl(sessionStorage, BaseUrl)
     IN /\ url # null
        /\ sharedSession' = [SharedInit EXCEPT !.url = url,
                                               !.shared = Getters(sessionStorage)]
        /\ last' = Call("generateShareableUrl", null, TRUE, url)
  /\ UNCHANGED <<sessionStorage, localStorage, now, map, planner, search, origin>>

\* the share URL is opened in a browser that has not used the application:
\* its store is empty, and the writes of a URL-sized record stay below the
\* storage quota
VisitSharedUrl ==
  /\ sharedSession.url # null
  /\ LET compressedData == searchParamsGet(sharedSession.url)
         success == loadSharedTrip(EmptyStorage, compressedData, <<TRUE, TRUE, TRUE, TRUE>>)
     IN sharedSession' = [sharedSession EXCEPT !.storage = success.storage,
                                               !.visited = TRUE,
                                               !.success = success.ret]
  /\ UNCHANGED <<sessionStorage, localStorage, now, last, map, planner, search, origin>>

\* time passes
Tick ==
  /\ now < MaxClock
  /\ now' = now + 1
  /\ UNCHANGED <<sessionStorage, localStorage, last, map, planner, search, sharedSession, origin>>

----------------------------------------------------------------------------
(* The registry's and the codec's exported functions, called from pages     *)
(* other than the planner                                                   *)

UnknownId == <<"saved_", 9, 9>>

SavedIds(storage) == {trip.id : trip \in Elems(getSavedTrips(storage))}

ApiLoadSavedTrip(tripId, ok) ==
  /\ ~planner.mounted
  /\ LET r == loadSavedTrip(sessionStorage, localStorage, tripId, ok)
     IN /\ sessionStorage' = r.storage
        /\ last' = Call("loadSavedTrip", tripId, r.ret, getSavedTrip(localStorage, tripId))
        /\ origin' = IF r.ret THEN tripId ELSE origin
  /\ UNCHANGED <<localStorage, now, map, planner, search, sharedSession>>

\* the names and descriptions typed into the save dialog
SaveForms ==
  { [description |-> undefined, name |-> "Summer"],
    [description |-> [text |-> "by the sea"], name |-> "Winter"] }

ApiSaveCurrentTrip(tripName, description, random, ok) ==
  /\ Len(getSavedTrips(localStorage)) < MaxSaved
  /\ LET r == saveCurrentTrip(sessionStorage, localStorage, tripName, description,
                              generateUniqueId(now, random), now, ok)
     IN /\ localStorage' = r.storage
        /\ last' = Call("saveCurrentTrip", tripName, r.ret, null)
  /\ UNCHANGED <<sessionStorage, now, map, planner, search, sharedSession, origin>>

ApiUpdateSavedTrip(tripId, tripName, description, ok) ==
  /\ LET r == updateSavedTrip(sessionStorage, localStorage, tripId, tripName, description, ok)
     IN /\ localStorage' = r.storage
        /\ last' = Call("updateSavedTrip", tripId, r.ret, null)
  /\ UNCHANGED <<sessionStorage, now, map, planner, search, sharedSession, origin>>

ApiDeleteSavedTrip(tripId, ok) ==
  /\ LET r == deleteSavedTrip(localStorage, tripId, ok)
     IN /\ localStorage' = r.storage
        /\ last' = Call("deleteSavedTrip", tripId, r.ret, null)
  /\ UNCHANGED <<sessionStorage, now, map, planner, search, sharedSession, origin>>

ApiGenerateShareableUrl ==
  /\ LET url == generateShareableUrl(sessionStorage, BaseUrl)
     IN last' = Call("generateShareableUrl", null, url # null, url)
  /\ UNCHANGED <<sessionStorage, localStorage, now, map, planner, search, sharedSession, origin>>

\* the three getters, called one after the other
ApiGetters ==
  /\ last' = Call("getters", null, TRUE, Getters(sessionStorage))
  /\ UNCHANGED <<sessionStorage, localStorage, now, map, planner, search, sharedSession, origin>>


\* tokens that are not the output of compressTripData: text that is not
\* base64, base64 of bytes that are not JSON, base64 of a malformed
\* %-escape, of text that is not JSON, of the JSON text null, and of the
\* JSON text {}
NotBase64 == [badEscape |-> FALSE, base64 |-> FALSE, chars |-> "not-a-valid-token"]
Base64Bytes == [badEscape |-> FALSE, base64 |-> TRUE, chars |-> "3q2+7w=="]
BadEscape == btoa([badEscape |-> TRUE, base64 |-> FALSE, chars |-> "%E0%A4%A"])
NotJSON == btoa(encodeURIComponent([badEscape |-> FALSE, base64 |-> TRUE, chars |-> "hello"]))
JSONNull == btoa(encodeURIComponent([json |-> null]))
JSONEmptyObject == btoa(encodeURIComponent(JSONstringify(<<>>)))
MalformedTokens == {NotBase64, Base64Bytes, BadEscape, NotJSON, JSONNull, JSONEmptyObject}

\* the tokens at hand: the malformed ones, the one compressTripData has just
\* returned, and the one in the share URL
Tokens ==
  MalformedTokens
    \cup (IF last.op = "compressTripData" /\ last.ret THEN {last.val} ELSE {})
    \cup (IF sharedSession.url # null THEN {searchParamsGet(sharedSession.url)} ELSE {})

ApiCompressTripData ==
  /\ LET compressedData == compressTripData(sessionStorage)
     IN last' = Call("compressTripData", null, compressedData # null, compressedData)
  /\ UNCHANGED <<sessionStorage, localStorage, now, map, planner, search, sharedSession, origin>>

ApiDecompressTripData(compressedData) ==
  /\ LET shareableTrip == decompressTripData(compressedData)
     IN last' = Call("decompressTripData", compressedData, shareableTrip # null, shareableTrip)
  /\ UNCHANGED <<sessionStorage, localStorage, now, map, planner, search, sharedSession, origin>>

ApiLoadSharedTrip(compressedData, ok) ==
  /\ ~planner.mounted
  /\ LET r == loadSharedTrip(sessionStorage, compressedData, ok)
     IN /\ sessionStorage' = r.storage
        /\ last' = Call("loadSharedTrip", compressedData, r.ret,
                        decompressTripData(compressedData))
        /\ origin' = IF r.ret THEN null ELSE origin
  /\ UNCHANGED <<localStorage, now, map, planner, search, sharedSession>>

----------------------------------------------------------------------------
(* Specifications *)

\* place-reference pairs picked from the suggestions of the home page
PickedPairs == { << <<"A","a">>, <<"B","B">> >>, << <<"8","0">>, <<"0","8">> >> }

\* the map of the planner, for one trip whose search panel runs the initial
\* search
NextMap ==
  \/ \E ok \in WriteOutcomes(2) : handleSubmit(<< <<"A","a">>, <<"B","B">> >>, ok)
  \/ \E ok \in WriteOutcomes(1) : OpenPlanner(ok)
  \/ IntervalTick
  \/ \E request \in search.pending, failed \in BOOLEAN, ok \in WriteOutcomes(2) :
       \E results \in SearchResults(request.category) :
         SearchResponse(request, failed, results, ok)
  \/ \E place \in Elems(planner.places), closed \in map.openWindows \cup {null} :
       MarkerClick(place, closed)
  \/ ListenerTimer
  \/ \E infoWindow \in map.openWindows : CloseClick(infoWindow)
  \/ \E infoWindow \in map.openWindows, ok \in WriteOutcomes(MaxListeners) :
       ButtonClick(infoWindow, ok)
  \/ \E request \in map.routeRequests, found \in BOOLEAN, ok \in WriteOutcomes(1) :
       RouteResponse(request, found, ok)

SpecMap == Init /\ [][NextMap]_vars

\* the search panel of the planner, for one trip
NextSearch ==
  \/ \E ok \in WriteOutcomes(2) : handleSubmit(<< <<"A","a">>, <<"B","B">> >>, ok)
  \/ \E ok \in WriteOutcomes(1) : OpenPlanner(ok)
  \/ NavigateHome
  \/ \E request \in map.routeRequests, found \in BOOLEAN, ok \in WriteOutcomes(1) :
       RouteResponse(request, found, ok)
  \/ IntervalTick
  \/ \E nonEmpty \in BOOLEAN : SetCustomSearchQuery(nonEmpty)
  \/ \E categoryId \in Categories : handleCategoryChange(categoryId)
  \/ UpdateSearchClick
  \/ \E request \in search.pending, failed \in BOOLEAN, ok \in WriteOutcomes(2) :
       \E results \in SearchResults(request.category) :
         SearchResponse(request, failed, results, ok)

SpecSearch == Init /\ [][NextSearch]_vars

\* saving from the planner and loading saved trips
NextSaved ==
  \/ \E pair \in PickedPairs, ok \in WriteOutcomes(2) : handleSubmit(pair, ok)
  \/ \E ok \in WriteOutcomes(1) : OpenPlanner(ok)
  \/ NavigateHome
  \/ \E tripName \in TripNames, description \in Descriptions, random \in RandomSuffixes,
        ok \in WriteOutcomes(1) :
       handleSaveTrip(tripName, description, random, ok)
  \/ handleEditTrip
  \/ \E tripId \in SavedIds(localStorage) \cup {UnknownId}, ok \in WriteOutcomes(4) :
       ApiLoadSavedTrip(tripId, ok)
  \/ Tick

SpecSaved == Init /\ [][NextSaved]_vars

\* the share codec, called directly on a store filled through the store's
\* exported functions
NextCodec ==
  \/ \E tripData \in TripRecords, ok \in WriteOutcomes(2) : ApiStoreTripData(tripData, ok)
  \/ \E routeData \in RouteRecords, ok \in WriteOutcomes(1) : ApiStoreRouteData(routeData, ok)
  \/ \E placesData \in PlacesArrays, ok \in WriteOutcomes(1) : ApiStorePlacesData(placesData, ok)
  \/ ApiCompressTripData
  \/ \E compressedData \in Tokens : ApiDecompressTripData(compressedData)

SpecCodec == Init /\ [][NextCodec]_vars

\* sharing: the share URL of the planner, and loading a shared trip in the
\* session that shared it and in a visitor's
NextShare ==
  \/ \E ok \in WriteOutcomes(2) : handleSubmit(<< <<"A","a">>, <<"B","B">> >>, ok)
  \/ \E tripData \in TripsWithPlaces, ok \in WriteOutcomes(1) : ApiUpdateTripData(tripData, ok)
  \/ \E routeData \in RouteRecords, ok \in WriteOutcomes(1) : ApiStoreRouteData(routeData, ok)
  \/ \E placesData \in PlacesArrays, ok \in WriteOutcomes(1) : ApiStorePlacesData(placesData, ok)
  \/ \E ok \in WriteOutcomes(1) : OpenPlanner(ok)
  \/ NavigateHome
  \/ handleShareTrip
  \/ VisitSharedUrl
  \/ \E compressedData \in Tokens \ MalformedTokens, ok \in WriteOutcomes(4) :
       ApiLoadSharedTrip(compressedData, ok)
  \/ ApiLoadSharedTrip(JSONEmptyObject, <<TRUE, TRUE, TRUE, TRUE>>)

SpecShare == Init /\ [][NextShare]_vars

\* the registry's exported functions, called directly and within one
\* millisecond on a store filled through the store's exported functions
NextRegistry ==
  \/ \E ok \in WriteOutcomes(2) : ApiStoreTripData(FormTrip(<< <<"A","a">>, <<"B","B">> >>), ok)
  \/ \E routeData \in RouteRecords : ApiStoreRouteData(routeData, <<TRUE>>)
  \/ \E form \in SaveForms, random \in RandomSuffixes, ok \in WriteOutcomes(1) :
       ApiSaveCurrentTrip(form.name, form.description, random, ok)
  \/ \E tripId \in SavedIds(localStorage) \cup {UnknownId}, form \in SaveForms :
       ApiUpdateSavedTrip(tripId, form.name, form.description, <<TRUE>>)
  \/ \E tripId \in SavedIds(localStorage) \cup {UnknownId}, ok \in WriteOutcomes(1) :
       ApiDeleteSavedTrip(tripId, ok)
  \/ \E tripId \in SavedIds(localStorage) \cup {UnknownId} :
       ApiLoadSavedTrip(tripId, <<TRUE, TRUE, TRUE, TRUE>>)
  \/ ApiCompressTripData
  \/ ApiGenerateShareableUrl

SpecRegistry == Init /\ [][NextRegistry]_vars

\* saving again: snapshots saved at different times and updated later, with
\* or without a route stored in between
NextResave ==
  \/ \E ok \in WriteOutcomes(2) : ApiStoreTripData(FormTrip(<< <<"A","a">>, <<"B","B">> >>), ok)
  \/ \E routeData \in RouteRecords, ok \in WriteOutcomes(1) : ApiStoreRouteData(routeData, ok)
  \/ \E ok \in WriteOutcomes(1) : ApiSaveCurrentTrip("Summer", undefined, 0, ok)
  \/ \E tripId \in SavedIds(localStorage) \cup {UnknownId}, form \in SaveForms,
        ok \in WriteOutcomes(1) :
       ApiUpdateSavedTrip(tripId, form.name, form.description, ok)
  \/ Tick

SpecResave == Init /\ [][NextResave]_vars

\* the store's exported functions called after saveCurrentTrip and
\* loadSavedTrip, within one millisecond
NextCopy ==
  \/ \E ok \in WriteOutcomes(2) : ApiStoreTripData(FormTrip(<< <<"A","a">>, <<"B","B">> >>), ok)
  \/ \E tripData \in TripsWithPlaces, ok \in WriteOutcomes(1) : ApiUpdateTripData(tripData, ok)
  \/ \E routeData \in RouteRecords, ok \in WriteOutcomes(1) : ApiStoreRouteData(routeData, ok)
  \/ \E ok \in WriteOutcomes(1) : ApiStorePlacesData(<<Cafe>>, ok)
  \/ ApiCleanupOldTripData
  \/ \E ok \in WriteOutcomes(1) : ApiSaveCurrentTrip("Summer", undefined, 0, ok)
  \/ \E tripId \in SavedIds(localStorage) \cup {UnknownId}, ok \in AtMostOneFails(4) :
       ApiLoadSavedTrip(tripId, ok)

SpecCopy == Init /\ [][NextCopy]_vars

\* the place ids of the home page's form, submitted with and without a place
\* picked from the autocomplete list for each of its two fields
SubmittedPairs ==
  { << <<>>, <<"8","0">> >>, << <<"8","0">>, <<>> >>, << <<"A","a">>, <<"B","B">> >> }

\* trip records with and without place ids, stored and asked about
NextValidity ==
  \/ \E pair \in SubmittedPairs, ok \in WriteOutcomes(2) : ApiStoreTripData(FormTrip(pair), ok)
  \/ \E ok \in WriteOutcomes(1) : ApiUpdateTripData(FormTrip(<< <<>>, <<"8","0">> >>), ok)
  \/ ApiHasValidCurrentTrip

SpecValidity == Init /\ [][NextValidity]_vars

\* every mutating function of the store and of the registry, each of its
\* setItem calls succeeding or throwing
NextQuota ==
  \/ \E ok \in WriteOutcomes(2) : ApiStoreTripData(FormTrip(<< <<"A","a">>, <<"B","B">> >>), ok)
  \/ \E ok \in WriteOutcomes(1) : ApiUpdateTripData(FormTrip(<< <<"A","a">>, <<"B","B">> >>), ok)
  \/ \E routeData \in RouteRecords, ok \in WriteOutcomes(1) : ApiStoreRouteData(routeData, ok)
  \/ \E ok \in WriteOutcomes(1) : ApiStorePlacesData(<<Cafe>>, ok)
  \/ \E ok \in WriteOutcomes(1) : ApiSaveCurrentTrip("Summer", undefined, 0, ok)
  \/ \E tripId \in SavedIds(localStorage) \cup {UnknownId}, ok \in WriteOutcomes(1) :
       ApiUpdateSavedTrip(tripId, "Summer", undefined, ok)
  \/ \E tripId \in SavedIds(localStorage) \cup {UnknownId}, ok \in WriteOutcomes(1) :
       ApiDeleteSavedTrip(tripId, ok)

SpecQuota == Init /\ [][NextQuota]_vars


\* two trips taking turns as the active one, through storeTripData and
\* through loading a snapshot or a share token, with every other exported
\* function called in between; updateTripData is called with the record of
\* the active trip, as the map does
NextPointer ==
  \/ \E pair \in PickedPairs : ApiStoreTripData(FormTrip(pair), <<TRUE, TRUE>>)
  \/ \E pair \in PickedPairs :
       /\ getItem(sessionStorage, Key_currentTripId) = generateTripId(pair[1], pair[2])
       /\ ApiUpdateTripData(FormTrip(pair), <<TRUE>>)
  \/ \E routeData \in RouteRecords : ApiStoreRouteData(routeData, <<TRUE>>)
  \/ ApiStorePlacesData(<<Cafe>>, <<TRUE>>)
  \/ ApiCleanupOldTripData
  \/ /\ Len(getSavedTrips(localStorage)) < MaxKept
     /\ ApiSaveCurrentTrip("Summer", undefined, 0, <<TRUE>>)
  \/ \E tripId \in SavedIds(localStorage) \cup {UnknownId} :
       ApiUpdateSavedTrip(tripId, "Summer", undefined, <<TRUE>>)
  \/ \E tripId \in SavedIds(localStorage) \cup {UnknownId} : ApiDeleteSavedTrip(tripId, <<TRUE>>)
  \/ ApiCompressTripData
  \/ ApiGetters
  \/ \E tripId \in SavedIds(localStorage) \cup {UnknownId}, ok \in WriteOutcomes(2) :
       ApiLoadSavedTrip(tripId, ok \o <<TRUE, TRUE>>)
  \/ \E compressedData \in Tokens \ MalformedTokens :
       ApiLoadSharedTrip(compressedData, <<TRUE, TRUE, TRUE, TRUE>>)

SpecPointer == Init /\ [][NextPointer]_vars


\* adding places from the map: the planner is opened on a trip for which a
\* search has cached two places, their markers are clicked and the
\* add-to-trip buttons of the info windows pressed
NextAdd ==
  \/ handleSubmit(<< <<"A","a">>, <<"B","B">> >>, <<TRUE, TRUE>>)
  \/ ApiStorePlacesData(<<Cafe, Park>>, <<TRUE>>)
  \/ \E ok \in WriteOutcomes(1) : OpenPlanner(ok)
  \/ \E place \in Elems(planner.places), closed \in map.openWindows \cup {null} :
       MarkerClick(place, closed)
  \/ ListenerTimer
  \/ \E infoWindow \in map.openWindows : CloseClick(infoWindow)
  \/ \E infoWindow \in map.openWindows, ok \in WriteOutcomes(MaxListeners) :
       ButtonClick(infoWindow, ok)

SpecAdd == Init /\ [][NextAdd]_vars


\* a route requested for one trip and answered after the user has gone back
\* to the home page and submitted another trip
NextStale ==
  \/ \E pair \in PickedPairs : handleSubmit(pair, <<TRUE, TRUE>>)
  \/ \E tripData \in TripsWithPlaces :
       /\ getItem(sessionStorage, Key_currentTripId)
            = generateTripId(tripData.fromPlaceId, tripData.toPlaceId)
       /\ ApiUpdateTripData(tripData, <<TRUE>>)
  \/ OpenPlanner(<<TRUE>>)
  \/ NavigateHome
  \/ \E request \in map.routeRequests, found \in BOOLEAN, ok \in WriteOutcomes(1) :
       RouteResponse(request, found, ok)
  \/ Tick

SpecStale == Init /\ [][NextStale]_vars


\* two trips whose place ids hash to the same identity
CollidingPairs == { << <<"A","a">>, <<"B","B">> >>, << <<"B","B">>, <<"A","a">> >> }

\* the store's exported functions called for the two colliding trips
NextCollide ==
  \/ \E pair \in CollidingPairs, ok \in WriteOutcomes(2) : ApiStoreTripData(FormTrip(pair), ok)
  \/ \E routeData \in RouteRecords, ok \in WriteOutcomes(1) : ApiStoreRouteData(routeData, ok)
  \/ \E placesData \in PlacesArrays, ok \in WriteOutcomes(1) : ApiStorePlacesData(placesData, ok)
  \/ ApiGetters

SpecCollide == Init /\ [][NextCollide]_vars


\* adding places from the map while route computations are in flight, every
\* one of which finds a route and stores it
NextRoute ==
  \/ NextAdd
  \/ \E request \in map.routeRequests : RouteResponse(request, TRUE, <<TRUE>>)

SpecRoute == Init /\ [][NextRoute]_vars


\* a record that carries the tripId of another trip than the one it is
\* written for
ForeignRecord ==
  Spread(FormTrip(<< <<"A","a">>, <<"B","B">> >>), [tripId |-> generateTripId(<<"8","0">>, <<"0","8">>)])

\* a load whose writes all succeed, one whose pointer write throws and one
\* whose first write throws
LoadOutcomes ==
  { <<TRUE, TRUE, TRUE, TRUE>>, <<TRUE, FALSE, TRUE, TRUE>>, <<FALSE, TRUE, TRUE, TRUE>> }

\* the functions that write the trip-scoped store, with setItem calls that
\* throw: two trips stored, updated with a record that carries another
\* trip's tripId, loaded from a snapshot and from a share token, old
\* partitions cleaned up in between; places are stored as the search does,
\* once a route is stored and no places are cached
NextActive ==
  \/ \E pair \in PickedPairs, ok \in WriteOutcomes(2) : ApiStoreTripData(FormTrip(pair), ok)
  \/ \E ok \in WriteOutcomes(1) : ApiUpdateTripData(ForeignRecord, ok)
  \/ \E routeData \in RouteRecords : ApiStoreRouteData(routeData, <<TRUE>>)
  \/ /\ getCurrentRouteData(sessionStorage) # null
     /\ getCurrentPlacesData(sessionStorage) = null
     /\ \E ok \in WriteOutcomes(1) : ApiStorePlacesData(<<Cafe>>, ok)
  \/ ApiCleanupOldTripData
  \/ /\ Len(getSavedTrips(localStorage)) < MaxKept
     /\ ApiSaveCurrentTrip("Summer", undefined, 0, <<TRUE>>)
  \/ \E tripId \in SavedIds(localStorage), ok \in LoadOutcomes : ApiLoadSavedTrip(tripId, ok)
  \/ ApiLoadSavedTrip(UnknownId, <<TRUE, TRUE, TRUE, TRUE>>)
  \/ ApiCompressTripData
  \/ \E compressedData \in Tokens \ MalformedTokens, ok \in LoadOutcomes :
       ApiLoadSharedTrip(compressedData, ok)
  \/ \E compressedData \in {NotBase64, JSONEmptyObject} :
       ApiLoadSharedTrip(compressedData, <<TRUE, TRUE, TRUE, TRUE>>)

SpecActive == Init /\ [][NextActive]_vars


\* place ids as strings over a three-letter alphabet
PlaceIdLetters == {"A", "a", "B"}
PlaceRefs == UNION {[1..n -> PlaceIdLetters] : n \in 0..MaxRefLen}

ApiGenerateTripId(fromPlaceId, toPlaceId) ==
  /\ last' = Call("generateTripId", <<fromPlaceId, toPlaceId>>, TRUE,
                  generateTripId(fromPlaceId, toPlaceId))
  /\ UNCHANGED <<sessionStorage, localStorage, now, map, planner, search, sharedSession, origin>>

\* generateTripId called on pairs of place ids
NextIdentity ==
  \E fromPlaceId \in PlaceRefs, toPlaceId \in PlaceRefs : ApiGenerateTripId(fromPlaceId, toPlaceId)

SpecIdentity == Init /\ [][NextIdentity]_vars

----------------------------------------------------------------------------
(* Properties of the trip-scoped store *)

currentTripId == getItem(sessionStorage, Key_currentTripId)

\* the three keys of a trip identity
TripKeys(tripId) ==
  { getTripStorageKey(tripId, dataType) : dataType \in {Str_data, Str_route, Str_places} }

\* C2 as stated: after storeTripData(R) returned true, getCurrentTripData()
\* returns a record equal to R.
C2_GetReturnsArgument ==
  (last.op = "storeTripData" /\ last.ret)
    => getCurrentTripData(sessionStorage) = last.arg

\* C2, amended: after storeTripData(R) returned true, whatever the storage
\* held before, getCurrentTripData() returns R with its tripId property set
\* to generateTripId(R.fromPlaceId, R.toPlaceId), every other property as in R.
C2_GetReturnsArgumentWithTripId ==
  (last.op = "storeTripData" /\ last.ret)
    => getCurrentTripData(sessionStorage) =
         Spread(last.arg,
                [tripId |-> generateTripId(last.arg.fromPlaceId, last.arg.toPlaceId)])

\* a successful storeTripData of a record with places, over a storage that
\* already holds another trip's partition
C2_Witness ==
  /\ last.op = "storeTripData"
  /\ last.ret
  /\ "places" \in DOMAIN last.arg
  /\ \E k \in DOMAIN sessionStorage :
       /\ startsWith(k, Str_trip_)
       /\ k \notin TripKeys(currentTripId)

\* C6: when cleanupOldTripData runs with identity Y active, afterwards no
\* trip_X_* key of any other identity X remains, and every trip_Y_* key
\* holds the value it held before.
C6_CleanupRemovesOtherPartitions ==
  [][ (ApiCleanupOldTripData /\ ~Falsy(currentTripId))
        => /\ \A k \in DOMAIN sessionStorage' :
                startsWith(k, Str_trip_) => k \in TripKeys(currentTripId)
           /\ \A k \in TripKeys(currentTripId) \cap DOMAIN sessionStorage :
                /\ k \in DOMAIN sessionStorage'
                /\ sessionStorage'[k] = sessionStorage[k] ]_vars

\* C10: with no currentTripId in session storage, updateTripData,
\* storeRouteData and storePlacesData return false and leave session
\* storage as it was.
C10_NoActiveIdentityNoWrite ==
  [][ ( /\ Falsy(currentTripId)
        /\ \/ \E tripData \in TripRecords, ok \in WriteOutcomes(1) :
                ApiUpdateTripData(tripData, ok)
           \/ \E routeData \in RouteRecords, ok \in WriteOutcomes(1) :
                ApiStoreRouteData(routeData, ok)
           \/ \E placesData \in PlacesArrays, ok \in WriteOutcomes(1) :
                ApiStorePlacesData(placesData, ok) )
        => (~last'.ret /\ sessionStorage' = sessionStorage) ]_vars

\* updateTripData was refused for want of an active identity, in a storage
\* that is not empty
C10_Witness ==
  /\ last.op = "updateTripData"
  /\ ~last.ret
  /\ Falsy(currentTripId)
  /\ DOMAIN sessionStorage # {}

----------------------------------------------------------------------------
(* Properties of the planner's map *)

\* C1: the places of the active trip never hold two entries with the same
\* (displayName.text, formattedAddress) pair, whatever marker clicks,
\* add-to-trip clicks and info-window closes have happened.
C1_NoDuplicatePlaces ==
  LET places == getTripData(sessionStorage).places
  IN \A i, j \in 1..Len(places) :
       i < j => generatePlaceId(places[i]) # generatePlaceId(places[j])

----------------------------------------------------------------------------
(* Properties of the search panel *)

\* the stored places cache as a set; empty when nothing is stored
StoredPlaces(storage) ==
  LET cache == getCurrentPlacesData(storage)
  IN IF cache = null THEN {} ELSE Elems(cache)

\* C7: a category search that completes, its writes succeeding, leaves the
\* stored places cache equal to the union of the old cache and its results.
C7_CategorySearchAddsToCache ==
  [][\A request \in search.pending, results \in {<<>>, <<Cafe>>, <<CafePOI>>} :
       (/\ ~request.custom
        /\ SearchResponse(request, FALSE, results, <<TRUE, TRUE>>))
       => StoredPlaces(sessionStorage') = StoredPlaces(sessionStorage) \cup Elems(results)]_vars

----------------------------------------------------------------------------
(* Properties of the saved-trip registry *)

\* C8: when the active trip was loaded from the saved trip `origin` and
\* handleSaveTrip succeeds, that saved trip is updated in place (same id, same
\* savedAt, holding the active trip), every other saved trip is unchanged, and
\* the registry keeps its length.
C8_ResaveUpdatesInPlace ==
  [][\A tripName \in TripNames, description \in Descriptions,
        random \in RandomSuffixes, ok \in WriteOutcomes(1) :
       (/\ origin # null
        /\ origin \in SavedIds(localStorage)
        /\ handleSaveTrip(tripName, description, random, ok)
        /\ last'.ret)
       => LET before == getSavedTrips(localStorage)
              after == getSavedTrips(localStorage')
          IN /\ Len(after) = Len(before)
             /\ \A i \in 1..Len(before) :
                  IF before[i].id = origin
                  THEN /\ after[i].id = origin
                       /\ after[i].savedAt = before[i].savedAt
                       /\ after[i].tripData = getCurrentTripData(sessionStorage)
                  ELSE after[i] = before[i]]_vars

----------------------------------------------------------------------------
(* Properties of the share codec *)

\* the snapshot equals what the three getters return, field for field, a
\* getter's null being a property the snapshot does not have
SnapshotEquals(snapshot, getters) ==
  /\ snapshot # null
  /\ Prop(snapshot, "tripData") = getters.tripData
  /\ IF getters.routeData = null THEN "routeData" \notin DOMAIN snapshot
     ELSE Prop(snapshot, "routeData") = getters.routeData
  /\ IF getters.placesData = null THEN "placesData" \notin DOMAIN snapshot
     ELSE Prop(snapshot, "placesData") = getters.placesData

C9_MalformedTokenDecodesToNull ==
  (last.op = "decompressTripData" /\ last.arg \in MalformedTokens) => last.val = null

----------------------------------------------------------------------------
(* Properties of sharing *)

\* C4: a visitor with an empty store who opens the share URL loads the trip,
\* and the visitor's three getters return what the sharer's returned when the
\* URL was built.
C4_SharedUrlRoundTrip ==
  sharedSession.visited =>
    /\ sharedSession.success
    /\ Getters(sharedSession.storage) = sharedSession.shared

\* a visit of a URL that was built for a trip with places and a route and
\* without a places cache
C4_Witness ==
  /\ sharedSession.visited
  /\ "places" \in DOMAIN sharedSession.shared.tripData
  /\ sharedSession.shared.routeData # null
  /\ sharedSession.shared.placesData = null
  /\ getCurrentRouteData(sharedSession.storage) # null

\* C5: after loadSavedTrip or loadSharedTrip has returned true, the three
\* getters return the trip record, the route and the places cache of the
\* loaded snapshot, null where the snapshot has none.
C5_LoadedSnapshotIsLive ==
  (last.op \in {"loadSavedTrip", "loadSharedTrip"} /\ last.ret) =>
    /\ getCurrentTripData(sessionStorage) = Prop(last.val, "tripData")
    /\ getCurrentRouteData(sessionStorage) =
         (IF "routeData" \in DOMAIN last.val THEN last.val.routeData ELSE null)
    /\ getCurrentPlacesData(sessionStorage) =
         (IF "placesData" \in DOMAIN last.val THEN last.val.placesData ELSE null)

----------------------------------------------------------------------------
(* Properties of the saved-trip registry *)

\* C11: while the store has no trip record for the active identity,
\* saveCurrentTrip returns false and leaves local storage as it was, and
\* compressTripData and generateShareableUrl return null
C11_NoActiveTripNothingToSaveOrShare ==
  [][getCurrentTripData(sessionStorage) = null =>
       /\ \A form \in SaveForms, random \in RandomSuffixes, ok \in WriteOutcomes(1) :
            (last'.op = "saveCurrentTrip"
               /\ ApiSaveCurrentTrip(form.name, form.description, random, ok)) =>
              ~last'.ret /\ localStorage' = localStorage
       /\ (last'.op = "compressTripData" /\ ApiCompressTripData) =>
            ~last'.ret /\ last'.val = null
       /\ (last'.op = "generateShareableUrl" /\ ApiGenerateShareableUrl) =>
            ~last'.ret /\ last'.val = null]_vars

\* a save was refused while the store had no trip record
C11_Witness ==
  /\ last.op = "saveCurrentTrip"
  /\ ~last.ret
  /\ getCurrentTripData(sessionStorage) = null
  /\ getSavedTrips(localStorage) = <<>>

\* C12: a saveCurrentTrip(name, description) that returns true appends
\* exactly one snapshot to the end of getSavedTrips(): the earlier snapshots
\* are unchanged and in place, and the new one carries the given name and
\* the trip record, route and places the store held
C12_SaveAppendsOneSnapshot ==
  [][\A form \in SaveForms, random \in RandomSuffixes, ok \in WriteOutcomes(1) :
       (/\ last'.op = "saveCurrentTrip"
        /\ last'.ret
        /\ ApiSaveCurrentTrip(form.name, form.description, random, ok)) =>
         LET before == getSavedTrips(localStorage)
             after == getSavedTrips(localStorage')
             savedTrip == after[Len(after)]
         IN /\ Len(after) = Len(before) + 1
            /\ SubSeq(after, 1, Len(before)) = before
            /\ savedTrip.name = form.name
            /\ Prop(savedTrip, "tripData") = getCurrentTripData(sessionStorage)
            /\ Prop(savedTrip, "routeData") = OrUndefined(getCurrentRouteData(sessionStorage))
            /\ Prop(savedTrip, "placesData") = OrUndefined(getCurrentPlacesData(sessionStorage))]_vars

\* a second snapshot, with a route, has just been saved after a first one
\* without
C12_Witness ==
  /\ last.op = "saveCurrentTrip"
  /\ last.ret
  /\ Len(getSavedTrips(localStorage)) = 2
  /\ Prop(getSavedTrips(localStorage)[1], "routeData") = undefined
  /\ Prop(getSavedTrips(localStorage)[2], "routeData") = getCurrentRouteData(sessionStorage)
  /\ getCurrentRouteData(sessionStorage) # null

\* C13: an updateSavedTrip(id, name, description) that returns true leaves the
\* snapshot with that id (the first one, should several have it) at its
\* position with its id and savedAt, gives it the name and description
\* passed and the trip record, route and places of the store, and leaves
\* every other snapshot as it was
C13_UpdateReplacesInPlace ==
  [][\A tripId \in SavedIds(localStorage) \cup {UnknownId}, form \in SaveForms,
        ok \in WriteOutcomes(1) :
       (/\ last'.op = "updateSavedTrip"
        /\ last'.ret
        /\ ApiUpdateSavedTrip(tripId, form.name, form.description, ok)) =>
         LET before == getSavedTrips(localStorage)
             after == getSavedTrips(localStorage')
             tripIndex == FindIndex([i \in 1..Len(before) |-> before[i].id = tripId])
         IN /\ tripIndex # 0
            /\ Len(after) = Len(before)
            /\ \A i \in 1..Len(before) : i # tripIndex => after[i] = before[i]
            /\ after[tripIndex].id = tripId
            /\ after[tripIndex].savedAt = before[tripIndex].savedAt
            /\ after[tripIndex].name = form.name
            /\ Prop(after[tripIndex], "description") = form.description
            /\ Prop(after[tripIndex], "tripData") = getCurrentTripData(sessionStorage)
            /\ Prop(after[tripIndex], "routeData")
                 = OrUndefined(getCurrentRouteData(sessionStorage))
            /\ Prop(after[tripIndex], "placesData")
                 = OrUndefined(getCurrentPlacesData(sessionStorage))]_vars

\* the first of two snapshots has just been updated, later than it was
\* saved, with another name, a description and a route
C13_Witness ==
  /\ last.op = "updateSavedTrip"
  /\ last.ret
  /\ Len(getSavedTrips(localStorage)) = 2
  /\ last.arg = getSavedTrips(localStorage)[1].id
  /\ getSavedTrips(localStorage)[2].id # last.arg
  /\ getSavedTrips(localStorage)[1].name = "Winter"
  /\ getSavedTrips(localStorage)[2].name = "Summer"
  /\ getSavedTrips(localStorage)[1].savedAt < now
  /\ Prop(getSavedTrips(localStorage)[1], "routeData") # undefined
  /\ Prop(getSavedTrips(localStorage)[2], "routeData") = undefined

\* C14: for an id that no snapshot of the registry has, updateSavedTrip and
\* loadSavedTrip return false and change neither local storage nor session
\* storage
C14_UnknownIdChangesNothing ==
  [][\A tripId \in {UnknownId} \ SavedIds(localStorage) :
       /\ \A form \in SaveForms, ok \in WriteOutcomes(1) :
            (last'.op = "updateSavedTrip"
               /\ ApiUpdateSavedTrip(tripId, form.name, form.description, ok)) =>
              /\ ~last'.ret
              /\ localStorage' = localStorage
              /\ sessionStorage' = sessionStorage
       /\ \A ok \in AtMostOneFails(4) :
            (last'.op = "loadSavedTrip" /\ ApiLoadSavedTrip(tripId, ok)) =>
              /\ ~last'.ret
              /\ localStorage' = localStorage
              /\ sessionStorage' = sessionStorage]_vars

\* an unknown id has just been refused by loadSavedTrip while the registry
\* had a snapshot and the store a trip
C14_Witness ==
  /\ last.op = "loadSavedTrip"
  /\ last.arg = UnknownId
  /\ ~last.ret
  /\ getSavedTrips(localStorage) # <<>>
  /\ getCurrentTripData(sessionStorage) # null

\* C15: a deleteSavedTrip(id) whose write succeeds returns true whether or
\* not a snapshot had the id, keeps the snapshots with other ids in their
\* order, and leaves a registry that a second deleteSavedTrip(id) does not
\* change
C15_DeleteIsIdempotent ==
  [][\A tripId \in SavedIds(localStorage) \cup {UnknownId} :
       (last'.op = "deleteSavedTrip" /\ ApiDeleteSavedTrip(tripId, <<TRUE>>)) =>
         LET before == getSavedTrips(localStorage)
             after == getSavedTrips(localStorage')
             again == deleteSavedTrip(localStorage', tripId, <<TRUE>>)
         IN /\ last'.ret
            /\ after = SelectSeq(before, LAMBDA trip : trip.id # tripId)
            /\ again.ret
            /\ again.storage = localStorage']_vars

\* a snapshot has just been deleted by its id while a snapshot with another
\* id stays
C15_Witness ==
  /\ last.op = "deleteSavedTrip"
  /\ last.ret
  /\ last.arg # UnknownId
  /\ last.arg \notin SavedIds(localStorage)
  /\ getSavedTrips(localStorage) # <<>>

\* C17: no two snapshots of the registry have the same id
C17_NoTwoSnapshotsShareAnId ==
  LET savedTrips == getSavedTrips(localStorage)
  IN \A i, j \in 1..Len(savedTrips) : savedTrips[i].id = savedTrips[j].id => i = j

\* C18: storeTripData, updateTripData, storeRouteData, storePlacesData and
\* cleanupOldTripData leave the registry, hence every snapshot saved or
\* loaded before, as it was
C18_StoreCallsLeaveSnapshotsAlone ==
  [][(\/ \E ok \in WriteOutcomes(2) :
           ApiStoreTripData(FormTrip(<< <<"A","a">>, <<"B","B">> >>), ok)
      \/ \E tripData \in TripsWithPlaces, ok \in WriteOutcomes(1) :
           ApiUpdateTripData(tripData, ok)
      \/ \E routeData \in RouteRecords, ok \in WriteOutcomes(1) :
           ApiStoreRouteData(routeData, ok)
      \/ \E ok \in WriteOutcomes(1) : ApiStorePlacesData(<<Cafe>>, ok)
      \/ ApiCleanupOldTripData)
       => getSavedTrips(localStorage') = getSavedTrips(localStorage)]_vars

\* the active trip has just been given a place that the snapshot saved from
\* it does not have
C18_Witness ==
  /\ last.op = "updateTripData"
  /\ last.ret
  /\ getSavedTrips(localStorage) # <<>>
  /\ Prop(getSavedTrips(localStorage)[1], "tripData") # getCurrentTripData(sessionStorage)

----------------------------------------------------------------------------
(* Further properties of the trip-scoped store *)

\* C16: a second cleanupOldTripData, run right after a first, leaves session
\* storage exactly as the first left it
C16_CleanupIsIdempotent ==
  [][ApiCleanupOldTripData => cleanupOldTripData(sessionStorage') = sessionStorage']_vars

\* cleanupOldTripData has just run with an active trip and has left the
\* active trip's record and a second key
C16_Witness ==
  /\ last.op = "cleanupOldTripData"
  /\ getCurrentTripData(sessionStorage) # null
  /\ Cardinality(DOMAIN sessionStorage) > 2

\* C19: hasValidCurrentTrip returns true exactly when 'currentTripId' is
\* set, a trip record is stored under that identity, and the record's
\* fromPlaceId and toPlaceId are both non-empty; after a successful
\* storeTripData of a record with an empty fromPlaceId or toPlaceId it is false
C19_ValidIffRecordWithBothPlaceIds ==
  /\ [](last.op = "hasValidCurrentTrip" =>
          (last.ret <=>
             /\ Key_currentTripId \in DOMAIN sessionStorage
             /\ getTripStorageKey(currentTripId, Str_data) \in DOMAIN sessionStorage
             /\ JSONparse(sessionStorage[getTripStorageKey(currentTripId, Str_data)]).fromPlaceId # <<>>
             /\ JSONparse(sessionStorage[getTripStorageKey(currentTripId, Str_data)]).toPlaceId # <<>>))
  /\ [][\A pair \in SubmittedPairs, ok \in WriteOutcomes(2) :
          (/\ ApiStoreTripData(FormTrip(pair), ok)
           /\ last'.ret
           /\ (pair[1] = <<>> \/ pair[2] = <<>>))
            => ~hasValidCurrentTrip(sessionStorage')]_vars

\* hasValidCurrentTrip has just returned false for an active trip whose
\* stored record has a fromPlaceId and no toPlaceId
C19_Witness ==
  /\ last.op = "hasValidCurrentTrip"
  /\ ~last.ret
  /\ getCurrentTripData(sessionStorage) # null
  /\ getCurrentTripData(sessionStorage).fromPlaceId # <<>>
  /\ getCurrentTripData(sessionStorage).toPlaceId = <<>>

\* C20: for place ids a # b, generateTripId(a, b) differs from
\* generateTripId(b, a)
C20_SwappedPairsDiffer ==
  (last.op = "generateTripId" /\ last.arg[1] # last.arg[2])
    => last.val # generateTripId(last.arg[2], last.arg[1])

----------------------------------------------------------------------------
(* Properties of failing storage writes *)

\* some setItem call of the outcomes ok throws
SomeWriteFails(ok) == \E i \in DOMAIN ok : ~ok[i]

\* C21: when a setItem call throws, each of storeTripData, updateTripData,
\* storeRouteData, storePlacesData, saveCurrentTrip, updateSavedTrip and
\* deleteSavedTrip returns false: the call ends with a boolean return value,
\* not with an exception, and that value is false.
C21_FailedWriteReturnsFalse ==
  [][/\ last'.op \in {"storeTripData", "updateTripData", "storeRouteData", "storePlacesData",
                      "saveCurrentTrip", "updateSavedTrip", "deleteSavedTrip"}
        => last'.ret \in BOOLEAN
     /\ \A ok \in WriteOutcomes(2) :
          (/\ last'.op = "storeTripData"
           /\ SomeWriteFails(ok)
           /\ ApiStoreTripData(last'.arg, ok)) => last'.ret = FALSE
     /\ \A ok \in WriteOutcomes(1) :
          /\ (/\ last'.op = "updateTripData"
              /\ SomeWriteFails(ok)
              /\ ApiUpdateTripData(last'.arg, ok)) => last'.ret = FALSE
          /\ (/\ last'.op = "storeRouteData"
              /\ SomeWriteFails(ok)
              /\ ApiStoreRouteData(last'.arg, ok)) => last'.ret = FALSE
          /\ (/\ last'.op = "storePlacesData"
              /\ SomeWriteFails(ok)
              /\ ApiStorePlacesData(last'.arg, ok)) => last'.ret = FALSE
          /\ (/\ last'.op = "saveCurrentTrip"
              /\ SomeWriteFails(ok)
              /\ ApiSaveCurrentTrip(last'.arg, undefined, 0, ok)) => last'.ret = FALSE
          /\ (/\ last'.op = "updateSavedTrip"
              /\ SomeWriteFails(ok)
              /\ ApiUpdateSavedTrip(last'.arg, "Summer", undefined, ok)) => last'.ret = FALSE
          /\ (/\ last'.op = "deleteSavedTrip"
              /\ SomeWriteFails(ok)
              /\ ApiDeleteSavedTrip(last'.arg, ok)) => last'.ret = FALSE
    ]_vars

\* a trip with a route and a snapshot is there, and a write has just thrown:
\* deleteSavedTrip returns false for no other reason
C21_Witness ==
  /\ last.op = "deleteSavedTrip"
  /\ last.ret = FALSE
  /\ getSavedTrips(localStorage) # <<>>
  /\ getCurrentRouteData(sessionStorage) # null

----------------------------------------------------------------------------
(* Properties of the active identity *)

\* the identity storeTripData computes for a trip record
IdentityOf(tripData) == generateTripId(tripData.fromPlaceId, tripData.toPlaceId)

\* C22: the currentTripId pointer changes only in a call of storeTripData,
\* made directly or by loadSavedTrip or loadSharedTrip, and then to the
\* identity of the record stored; updateTripData, storeRouteData,
\* storePlacesData, cleanupOldTripData, saveCurrentTrip, updateSavedTrip,
\* deleteSavedTrip, compressTripData and the getters leave it as it is.
C22_OnlyStoreTripDataMovesPointer ==
  [][currentTripId' # currentTripId =>
       \/ /\ last'.op = "storeTripData"
          /\ currentTripId' = IdentityOf(last'.arg)
       \/ /\ last'.op \in {"loadSavedTrip", "loadSharedTrip"}
          /\ currentTripId' = IdentityOf(last'.val.tripData)
    ]_vars

\* a snapshot of one trip has been loaded while another trip was active,
\* whose record is still in the store
C22_Witness ==
  /\ last.op = "loadSavedTrip"
  /\ last.ret
  /\ currentTripId = generateTripId(<<"A","a">>, <<"B","B">>)
  /\ getTripStorageKey(generateTripId(<<"8","0">>, <<"0","8">>), Str_data) \in DOMAIN sessionStorage

\* the keys of the session storage that a step adds, removes or gives
\* another value
WrittenKeys ==
  {k \in DOMAIN sessionStorage \cup DOMAIN sessionStorage' :
     \/ (k \in DOMAIN sessionStorage) # (k \in DOMAIN sessionStorage')
     \/ /\ k \in DOMAIN sessionStorage
        /\ k \in DOMAIN sessionStorage'
        /\ sessionStorage[k] # sessionStorage'[k]}

\* the key of the given type in the partition of the active identity, if
\* there is an active identity
ActiveKey(dataType) ==
  IF Falsy(currentTripId) THEN {} ELSE {getTripStorageKey(currentTripId, dataType)}

\* C23: storeTripData(R) writes the data key of R's identity and the
\* currentTripId pointer and nothing else; updateTripData, storeRouteData and
\* storePlacesData write the data, route and places key of the active
\* identity and nothing else, so the keys of every other identity stay as
\* they are; and what a getter returns is what is stored under the active
\* identity's key, never under another identity's.
C23_WritesStayInTheirPartition ==
  /\ [][/\ last'.op = "storeTripData" /\ last'.arg # undefined =>
             /\ WrittenKeys \subseteq
                  {getTripStorageKey(IdentityOf(last'.arg), Str_data), Key_currentTripId}
             /\ last'.ret =>
                  /\ getTripStorageKey(IdentityOf(last'.arg), Str_data) \in DOMAIN sessionStorage'
                  /\ currentTripId' = IdentityOf(last'.arg)
        /\ last'.op = "updateTripData" =>
             /\ WrittenKeys \subseteq ActiveKey(Str_data)
             /\ last'.ret => /\ ActiveKey(Str_data) # {}
                             /\ ActiveKey(Str_data) \subseteq DOMAIN sessionStorage'
        /\ last'.op = "storeRouteData" =>
             /\ WrittenKeys \subseteq ActiveKey(Str_route)
             /\ last'.ret => /\ ActiveKey(Str_route) # {}
                             /\ ActiveKey(Str_route) \subseteq DOMAIN sessionStorage'
        /\ last'.op = "storePlacesData" =>
             /\ WrittenKeys \subseteq ActiveKey(Str_places)
             /\ last'.ret => /\ ActiveKey(Str_places) # {}
                             /\ ActiveKey(Str_places) \subseteq DOMAIN sessionStorage'
       ]_vars
  /\ [](\A dataType \in {Str_data, Str_route, Str_places} :
          getCurrent(sessionStorage, dataType) # null =>
            /\ ~Falsy(currentTripId)
            /\ getTripStorageKey(currentTripId, dataType) \in DOMAIN sessionStorage
            /\ getCurrent(sessionStorage, dataType)
                 = JSONparse(sessionStorage[getTripStorageKey(currentTripId, dataType)]))

\* a route has just been stored for the active trip while the record of
\* another identity, active before, is still in the store
C23_Witness ==
  /\ last.op = "storeRouteData"
  /\ last.ret
  /\ \E pair \in PlaceIdPairs :
       /\ generateTripId(pair[1], pair[2]) # currentTripId
       /\ getTripStorageKey(generateTripId(pair[1], pair[2]), Str_data) \in DOMAIN sessionStorage


----------------------------------------------------------------------------
(* Properties of adding places to the trip *)

\* the places of the stored trip record
StoredTripPlaces(storage) ==
  LET tripData == getCurrentTripData(storage)
  IN IF tripData # null /\ "places" \in DOMAIN tripData THEN tripData.places ELSE <<>>

\* the place ids of the stored trip record's places
StoredPlaceIds(storage) ==
  {generatePlaceId(place) : place \in Elems(StoredTripPlaces(storage))}

----------------------------------------------------------------------------
(* Properties of route responses *)

\* C25: the response to a route request made while one identity was active,
\* arriving with a route while another identity is active, is not dropped:
\* storeRouteData files the route under the identity active at arrival, the
\* pointer stays, and getCurrentRouteData() then returns the route computed
\* for the waypoints of the request, that is, of the other trip.
C25_StaleRouteGoesToActiveTrip ==
  [][\A request \in map.routeRequests :
       (/\ last'.op = "storeRouteData"
        /\ ~Falsy(currentTripId)
        /\ request.tripId # currentTripId
        /\ RouteResponse(request, TRUE, <<TRUE>>))
       => /\ last'.ret
          /\ currentTripId' = currentTripId
          /\ WrittenKeys \subseteq ActiveKey(Str_route)
          /\ getCurrentRouteData(sessionStorage') = RouteFor(request.waypoints, now)
    ]_vars

\* the active trip has no places, and the route the getter returns for it
\* has the waypoint of a place of the trip that was active before
C25_Witness ==
  /\ last.op = "storeRouteData"
  /\ last.ret
  /\ getCurrentTripData(sessionStorage) # null
  /\ StoredTripPlaces(sessionStorage) = <<>>
  /\ getCurrentRouteData(sessionStorage) # null
  /\ getCurrentRouteData(sessionStorage).waypoints # <<>>


----------------------------------------------------------------------------
(* Properties of colliding identities *)

\* the pair of place ids of a trip record
PairOf(tripData) == <<tripData.fromPlaceId, tripData.toPlaceId>>

\* the keys under which the storage holds a trip record
DataKeys(storage) ==
  {k \in DOMAIN storage :
     /\ startsWith(k, Str_trip_)
     /\ Len(k) > Len(Str_data)
     /\ SubSeq(k, Len(k) - Len(Str_data), Len(k)) = <<"_">> \o Str_data}

\* C26: when storeTripData succeeds for a trip whose pair of place ids
\* differs from the active trip's pair and has the same identity, the two
\* share one partition: the active trip's record is overwritten by the new
\* trip's, no key holds it any more, and getCurrentRouteData() and
\* getCurrentPlacesData() return for the new trip the route and the places
\* that were stored for the other one.
C26_CollidingTripsShareAPartition ==
  [][\A pair \in CollidingPairs :
       (/\ last'.op = "storeTripData"
        /\ last'.ret
        /\ getCurrentTripData(sessionStorage) # null
        /\ PairOf(getCurrentTripData(sessionStorage)) # pair
        /\ IdentityOf(getCurrentTripData(sessionStorage)) = generateTripId(pair[1], pair[2])
        /\ ApiStoreTripData(FormTrip(pair), <<TRUE, TRUE>>))
       => /\ PairOf(getCurrentTripData(sessionStorage')) = pair
          /\ \A k \in DataKeys(sessionStorage') :
               PairOf(JSONparse(sessionStorage'[k])) = pair
          /\ getCurrentRouteData(sessionStorage') = getCurrentRouteData(sessionStorage)
          /\ getCurrentPlacesData(sessionStorage') = getCurrentPlacesData(sessionStorage)
    ]_vars

\* the trip BB -> Aa has just been made the active one, and the getters
\* return a route and places for it
C26_Witness ==
  /\ last.op = "storeTripData"
  /\ last.ret
  /\ PairOf(last.arg) = << <<"B","B">>, <<"A","a">> >>
  /\ PairOf(getCurrentTripData(sessionStorage)) = << <<"B","B">>, <<"A","a">> >>
  /\ getCurrentRouteData(sessionStorage) # null
  /\ getCurrentPlacesData(sessionStorage) # null


\* the waypoint calculateAndDisplayRoute stores for a place of the trip
WaypointOf(place) ==
  [location |-> [lat |-> place.location.latitude, lng |-> place.location.longitude]]

\* C27: when the trip holds a place with a location and no route computation
\* is in flight, every one having stored its route, the stored route is the
\* one of the trip's places: its waypoints contain the location of every
\* located place of the trip, in whatever order the responses arrived.
C27_RouteCoversTripPlaces ==
  (/\ map.routeRequests = {}
   /\ \E place \in Elems(StoredTripPlaces(sessionStorage)) : HasLocation(place))
  => /\ getCurrentRouteData(sessionStorage) # null
     /\ \A place \in Elems(StoredTripPlaces(sessionStorage)) :
          HasLocation(place) =>
            WaypointOf(place) \in Elems(getCurrentRouteData(sessionStorage).waypoints)


----------------------------------------------------------------------------
(* Properties of loading a shared trip *)

\* C28: a loadSharedTrip call that returns false, whether the token does not
\* decode, decodes to something without a trip record, or a storage write
\* fails, leaves the trip-scoped store as it was: the same active identity
\* and the same record, route and places under every identity.
C28_FailedSharedLoadLeavesStore ==
  [][\A compressedData \in Tokens, ok \in WriteOutcomes(4) :
       (/\ last'.op = "loadSharedTrip"
        /\ ~last'.ret
        /\ ApiLoadSharedTrip(compressedData, ok))
       => sessionStorage' = sessionStorage]_vars


----------------------------------------------------------------------------
(* Properties of the active trip's record *)

\* C29: whenever an active identity exists, after any sequence of the
\* store's writing functions, failed ones included, a trip record is stored
\* under the active identity's data key and its tripId is the active
\* identity.
C29_ActiveIdentityHasItsRecord ==
  ~Falsy(currentTripId) =>
    /\ getTripStorageKey(currentTripId, Str_data) \in DOMAIN sessionStorage
    /\ getCurrentTripData(sessionStorage) # null
    /\ getCurrentTripData(sessionStorage).tripId = currentTripId

\* a load that failed on the pointer write has left the record of a trip
\* that is not the active one
C29_Witness ==
  /\ ~Falsy(currentTripId)
  /\ last.op \in {"loadSavedTrip", "loadSharedTrip"}
  /\ ~last.ret
  /\ \E key \in DataKeys(sessionStorage) :
       key # getTripStorageKey(currentTripId, Str_data)


----------------------------------------------------------------------------
(* Properties of the saved-trip id the planner tracks *)

\* C30: when handleSaveTrip saves a trip that was not saved before and the
\* save succeeds, the id the page keeps for later updates is the id of the
\* snapshot this save appended to the registry, whatever the registry held
\* before, snapshots of the same name included.
C30_TracksTheAppendedSnapshot ==
  [][\A tripName \in TripNames, description \in Descriptions,
        random \in RandomSuffixes, ok \in WriteOutcomes(1) :
       (/\ last'.op = "handleSaveTrip"
        /\ last'.ret
        /\ planner.currentSavedTripId = null
        /\ handleSaveTrip(tripName, description, random, ok))
       => LET savedTrips == getSavedTrips(localStorage')
          IN /\ Len(savedTrips) = Len(getSavedTrips(localStorage)) + 1
             /\ planner'.currentSavedTripId = savedTrips[Len(savedTrips)].id]_vars


====
